---- MODULE Spec2Model ----
(***************************************************************************)
(* Model of the task tracker (src/beginner/task-tracker-cli/task_cli.py):  *)
(* one process invocation = read task_list.json, run one sub-command on    *)
(* the in-memory list, write the list back when the command succeeded.     *)
(*                                                                         *)
(* Model of the activity viewer (src/beginner/github-user-activity-cli/    *)
(* github_user_activity.py): one process invocation = parse the command    *)
(* line, ask the cache file of the user, fetch from the GitHub API when    *)
(* the cache gives nothing, store what was fetched, print the events.      *)
(* GitHubEventHandler.handle_output is also modelled on its own, on event  *)
(* records with nested members, and the task tracker also as two processes *)
(* that run at the same time on the one task file.                         *)
(***************************************************************************)
EXTENDS Integers, Sequences, FiniteSets, TLC

(***************************************************************************)
(* Bounds of the model.                                                    *)
(***************************************************************************)
\* longest task list an add may produce
MaxLen == 2
\* largest id an add may assign
MaxId == 3
\* last second of the wall clock
MaxTime == 1

(***************************************************************************)
(* Program constants (task_cli.py lines 8-13).                             *)
(***************************************************************************)
ADD_COMMAND_LENGTH == 3
DELETE_COMMAND_LENGTH == 3
UPDATE_COMMAND_LENGTH == 4
MARK_STATUS_COMMAND_LENGTH == 3
LIST_WITHOUT_ARGUMENT_LENGTH == 2
LIST_WITH_ARGUMENT_LENGTH == 3

(***************************************************************************)
(* Program constants (github_user_activity.py lines 19-23).                *)
(***************************************************************************)
CACHE_TTL_SECONDS == 900
MIN_CLI_ARGS_COUNT == 3
CLI_ARGS_COUNT_WITH_FILTER == 4
GITHUB_DEFAULT_EVENTS_PER_PAGE == 30

(***************************************************************************)
(* Python values.  A scalar is an int, a str or None; a value is a scalar, *)
(* a dict (insertion-ordered key/value pairs with scalar values) or a list *)
(* of scalars and dicts.  All values share one record shape.               *)
(***************************************************************************)
PyInt(n) == [k |-> "int", n |-> n, s |-> ""]
PyStr(s) == [k |-> "str", n |-> 0, s |-> s]
PyNone == [k |-> "none", n |-> 0, s |-> ""]

Scalar(sc) == [t |-> "scalar", sc |-> sc, pairs |-> <<>>, elems |-> <<>>]
Dict(ps) == [t |-> "dict", sc |-> PyNone, pairs |-> ps, elems |-> <<>>]
List(es) == [t |-> "list", sc |-> PyNone, pairs |-> <<>>, elems |-> es]

\* a name that is not bound to a value (yet)
Unbound == [t |-> "unbound", sc |-> PyNone, pairs |-> <<>>, elems |-> <<>>]

Pair(key, val) == [key |-> key, val |-> val]

\* the keys of a dict
Keys(d) == {d.pairs[i].key : i \in 1..Len(d.pairs)}

\* d[key] of a dict that has the key
Get(d, key) == d.pairs[CHOOSE i \in 1..Len(d.pairs) : d.pairs[i].key = key].val

\* d[key] = val: an existing key keeps its position, a new key goes last
Put(d, key, val) ==
    IF key \in Keys(d)
    THEN Dict([d.pairs EXCEPT
                 ![CHOOSE i \in 1..Len(d.pairs) : d.pairs[i].key = key] =
                     Pair(key, val)])
    ELSE Dict(Append(d.pairs, Pair(key, val)))

\* item["key"] of a list element: a dict without the key raises KeyError, a
\* str or an int element raises TypeError
CanIndex(item, key) == item.t = "dict" /\ key \in Keys(item)

(***************************************************************************)
(* JSON text, as the sequence of its tokens: punctuation, string literals, *)
(* number literals and the word null.                                      *)
(***************************************************************************)
Tok(k, v) == [k |-> k, v |-> v]
P(v) == Tok("p", v)

\* the integers a number literal of the model can denote
JsonInts == (0..(MaxId + 1)) \cup {CACHE_TTL_SECONDS}

\* DumpScalar, but an int is written as a string literal
DumpScalar_Quoted(sc) ==
    IF sc.k = "int" THEN <<Tok("s", ToString(sc.n))>>
    ELSE IF sc.k = "str" THEN <<Tok("s", sc.s)>>
    ELSE <<Tok("w", "null")>>

DumpScalar(sc) ==
    IF sc.k = "int" THEN <<Tok("n", ToString(sc.n))>>
    ELSE IF sc.k = "str" THEN <<Tok("s", sc.s)>>
    ELSE <<Tok("w", "null")>>

DumpPair(p) == <<Tok("s", p.key), P(":")>> \o DumpScalar(p.val)

RECURSIVE DumpPairs(_)
DumpPairs(ps) ==
    IF ps = <<>> THEN <<>>
    ELSE IF Tail(ps) = <<>> THEN DumpPair(Head(ps))
    ELSE DumpPair(Head(ps)) \o <<P(",")>> \o DumpPairs(Tail(ps))

DumpItem(v) ==
    IF v.t = "dict" THEN <<P("{")>> \o DumpPairs(v.pairs) \o <<P("}")>>
    ELSE DumpScalar(v.sc)

RECURSIVE DumpElems(_)
DumpElems(es) ==
    IF es = <<>> THEN <<>>
    ELSE IF Tail(es) = <<>> THEN DumpItem(Head(es))
    ELSE DumpItem(Head(es)) \o <<P(",")>> \o DumpElems(Tail(es))

\* json.dump(value, file, indent=4), white space left out
json_dump(v) ==
    IF v.t = "list" THEN <<P("[")>> \o DumpElems(v.elems) \o <<P("]")>>
    ELSE DumpItem(v)

\* a parse result: ok, the value, and the index of the next token
Res(ok, val, next) == [ok |-> ok, val |-> val, next |-> next]
Bad == Res(FALSE, Scalar(PyNone), 0)

\* the number a number literal denotes
NumberOf == [s \in {ToString(n) : n \in JsonInts} |->
               CHOOSE n \in JsonInts : ToString(n) = s]

IsScalarTok(tok) ==
    \/ tok.k = "s"
    \/ tok.k = "n" /\ tok.v \in DOMAIN NumberOf
    \/ tok.k = "w" /\ tok.v = "null"

ScalarOf(tok) ==
    IF tok.k = "s" THEN PyStr(tok.v)
    ELSE IF tok.k = "n" THEN PyInt(NumberOf[tok.v])
    ELSE PyNone

\* the members of an object, from token i on, up to the closing brace; acc
\* is the dict read so far (a repeated key keeps its last value)
RECURSIVE ParsePairs(_, _, _)
ParsePairs(toks, i, acc) ==
    IF i + 3 > Len(toks) THEN Bad
    ELSE IF toks[i].k # "s" \/ toks[i + 1] # P(":") \/ ~IsScalarTok(toks[i + 2])
    THEN Bad
    ELSE IF toks[i + 3] = P("}")
    THEN Res(TRUE, Put(acc, toks[i].v, ScalarOf(toks[i + 2])), i + 4)
    ELSE IF toks[i + 3] = P(",")
    THEN ParsePairs(toks, i + 4, Put(acc, toks[i].v, ScalarOf(toks[i + 2])))
    ELSE Bad

\* a scalar or an object starting at token i
ParseItem(toks, i) ==
    IF i > Len(toks) THEN Bad
    ELSE IF toks[i] = P("{")
    THEN IF i + 1 <= Len(toks) /\ toks[i + 1] = P("}")
         THEN Res(TRUE, Dict(<<>>), i + 2)
         ELSE ParsePairs(toks, i + 1, Dict(<<>>))
    ELSE IF IsScalarTok(toks[i]) THEN Res(TRUE, Scalar(ScalarOf(toks[i])), i + 1)
    ELSE Bad

\* the elements of an array, from token i on, up to the closing bracket;
\* acc holds the elements read so far and r is the element parsed at i
RECURSIVE ParseElems(_, _, _)
AfterElem(toks, acc, r) ==
    IF ~r.ok \/ r.next > Len(toks) THEN Bad
    ELSE IF toks[r.next] = P("]")
    THEN Res(TRUE, List(Append(acc, r.val)), r.next + 1)
    ELSE IF toks[r.next] = P(",")
    THEN ParseElems(toks, r.next + 1, Append(acc, r.val))
    ELSE Bad

ParseElems(toks, i, acc) == AfterElem(toks, acc, ParseItem(toks, i))

ParseValue(toks) ==
    IF toks = <<>> THEN Bad
    ELSE IF toks[1] = P("[")
    THEN IF Len(toks) >= 2 /\ toks[2] = P("]")
         THEN Res(TRUE, List(<<>>), 3)
         ELSE ParseElems(toks, 2, <<>>)
    ELSE ParseItem(toks, 1)

\* json.load(file): the value, or JSONDecodeError when the text is no JSON
\* document (trailing tokens are "Extra data")
WholeText(toks, r) == IF r.ok /\ r.next = Len(toks) + 1 THEN r ELSE Bad

json_load(toks) == WholeText(toks, ParseValue(toks))

(***************************************************************************)
(* The state.  task_list.json and the clock outlive a process; the other   *)
(* variables are the memory and the output of the process that runs the    *)
(* program, and are gone when it exits.                                    *)
(***************************************************************************)
VARIABLES
    pc,                 \* "idle": no process; "ended": __main__ has run
    file,               \* task_list.json: [kind, toks]
    now,                \* the wall clock, in seconds of one day
    argv,               \* sys.argv of the invocation
    before,             \* task_list.json when the invocation started
    loaded,             \* what read_tasks_from_json returned (tasks, before
                        \* the command ran)
    tasks,              \* task_manager.tasks when the process ended
    operation_success,  \* its operation_success
    exc,                \* the exception that ended it unhandled, or "none"
    stdout,             \* the lines it printed
    wrote,              \* whether it called write_tasks_to_json
    issued              \* the ids add_item assigned in the processes before

task_vars ==
    <<pc, file, now, argv, before, loaded, tasks, operation_success, exc,
      stdout, wrote, issued>>

\* The state of the activity viewer.  The cache file of the user and the
\* UTC clock outlive a process; the other variables are the memory and the
\* output of the process that runs main(), gone when it exits.
VARIABLES
    viewer,         \* "idle": no process; "ended": main() has run
    cache,          \* .events_cache_<user>.json: [kind, toks]
    utc,            \* the UTC clock, in seconds of one day
    sys_argv,       \* sys.argv of the invocation
    environment,    \* what the network and the user did in an invocation
                    \* that called fetch_activity:
                    \* [first, second, env_token, prompt, write_fails]
    cache_was,      \* the cache file when the invocation started
    cached,         \* the call of check_cache_usability: [called, ret, exc]
    fetched,        \* the call of fetch_activity: [called, ret, exc,
                    \* requests (the headers of each request sent),
                    \* token_read, timestamp]
    events,         \* events of main() when the process ended
    cache_write,    \* the call of write_cache: [called, failed]
    raised,         \* the exception that ended main() unhandled, or "none"
    printed,        \* the lines it printed
    logged,         \* the messages it logged
    last_fetch      \* history: the last fetch_activity that returned events,
                    \* [called, at (the clock then), events]

activity_vars ==
    <<viewer, cache, utc, sys_argv, environment, cache_was, cached, fetched,
      events, cache_write, raised, printed, logged, last_fetch>>

\* One call of GitHubEventHandler.handle_output.
VARIABLES
    record,         \* the event record handed to handle_output
    described       \* what the call returned, or Raise(exception)

handler_vars == <<record, described>>

\* Two task-tracker processes that run at the same time on the one
\* task_list.json (the variable file).
VARIABLES
    race,           \* of each process: [at (the statement it is at), argv,
                    \* tasks (its task_manager.tasks), operation_success]
    writers         \* history: the processes that wrote their tasks, in the
                    \* order in which their writes ended

race_vars == <<race, writers>>

vars == <<task_vars, activity_vars, handler_vars, race_vars>>

\* contents of task_list.json: no file, bytes that are not UTF-8, or text
Missing == [kind |-> "missing", toks |-> <<>>]
Undecodable == [kind |-> "bytes", toks |-> <<>>]
Text(toks) == [kind |-> "text", toks |-> toks]

\* a call that was not made
NotCalled == [called |-> FALSE]

\* no activity viewer has run; the cache file is c
Quiet(c) ==
    /\ viewer = "idle"
    /\ cache = c
    /\ utc = 0
    /\ sys_argv = <<>>
    /\ environment = NotCalled
    /\ cache_was = c
    /\ cached = NotCalled
    /\ fetched = NotCalled
    /\ events = Unbound
    /\ cache_write = NotCalled
    /\ raised = "none"
    /\ printed = <<>>
    /\ logged = <<>>
    /\ last_fetch = NotCalled

\* handle_output has not been called
Unasked ==
    /\ record = Unbound
    /\ described = Unbound

\* the process has not started
NotStarted ==
    [at |-> "start", argv |-> <<>>, tasks |-> Unbound,
     operation_success |-> FALSE]

\* no two processes race
Alone ==
    /\ race = <<NotStarted, NotStarted>>
    /\ writers = <<>>

(***************************************************************************)
(* TaskManager                                                             *)
(***************************************************************************)
Pad2(n) == IF n < 10 THEN "0" \o ToString(n) ELSE ToString(n)

\* strftime("%d-%m-%Y %H:%M:%S") of second n of the day the model runs in
strftime(n) ==
    "01-01-2026 " \o Pad2(n \div 3600) \o ":" \o Pad2((n \div 60) % 60)
                  \o ":" \o Pad2(n % 60)

_fetch_current_time == strftime(now)

\* the result of a TaskManager method: the list after it, its return value
\* and the exception it raised ("none": it returned)
MR(ts, ret, ex) == [tasks |-> ts, ret |-> ret, exc |-> ex]

Min(S) == CHOOSE x \in S : \A y \in S : x <= y

\* `for item in self.tasks`: a list yields its elements, a dict its keys, a
\* str its characters (not told apart here: each is a str), and an int or
\* None raises TypeError
Iterable(ts) == ts.t \in {"list", "dict"} \/ ts.sc.k = "str"

Items(ts) ==
    IF ts.t = "list" THEN ts.elems
    ELSE IF ts.t = "dict"
    THEN [i \in 1..Len(ts.pairs) |-> Scalar(PyStr(ts.pairs[i].key))]
    ELSE [i \in 1..Len(ts.sc.s) |-> Scalar(PyStr("c"))]

\* the exception of item[key] when CanIndex(item, key) is false
IndexExc(item) == IF item.t = "dict" THEN "KeyError" ELSE "TypeError"

\* where the search `if item["id"] == id` stops: at the first item that has
\* no "id" (it raises) or whose id equals id (it matches)
Stops(items, id) ==
    {i \in 1..Len(items) :
        \/ ~CanIndex(items[i], "id")
        \/ Get(items[i], "id") = PyInt(id)}

\* the outcome of `for item in self.tasks: if item["id"] == id`: the index
\* the loop stops at, 0 when it runs to the end, -1 when self.tasks cannot
\* be iterated
Search(ts, id) ==
    IF ~Iterable(ts) THEN 0 - 1
    ELSE IF Stops(Items(ts), id) = {} THEN 0
    ELSE Min(Stops(Items(ts), id))

\* Found, but a search that ran to the end counts as a match
Found_Always(ts, i, hit) ==
    IF i < 0 THEN MR(ts, FALSE, "TypeError")
    ELSE IF i = 0 THEN MR(ts, TRUE, "none")
    ELSE IF ~CanIndex(Items(ts)[i], "id")
    THEN MR(ts, FALSE, IndexExc(Items(ts)[i]))
    ELSE MR(hit, TRUE, "none")

\* what a method does when its search ended with i; hit is the list it
\* leaves when item i matched
Found(ts, i, hit) ==
    IF i < 0 THEN MR(ts, FALSE, "TypeError")
    ELSE IF i = 0 THEN MR(ts, FALSE, "none")
    ELSE IF ~CanIndex(Items(ts)[i], "id")
    THEN MR(ts, FALSE, IndexExc(Items(ts)[i]))
    ELSE MR(hit, TRUE, "none")

\* Stamped, but item["updatedAt"] is left as it was
Stamped_NoTime(ts, i, key, val) ==
    IF i > 0 /\ ts.t = "list" /\ ts.elems[i].t = "dict"
    THEN List([ts.elems EXCEPT ![i] = Put(@, key, PyStr(val))])
    ELSE ts

\* item i with item[key] = val and item["updatedAt"] = the current time
Stamped(ts, i, key, val) ==
    IF i > 0 /\ ts.t = "list" /\ ts.elems[i].t = "dict"
    THEN List([ts.elems EXCEPT ![i] =
                 Put(Put(@, key, PyStr(val)), "updatedAt",
                     PyStr(_fetch_current_time))])
    ELSE ts

MarkAt(ts, i, status) == Found(ts, i, Stamped(ts, i, "status", status))

mark_status(ts, id, status) == MarkAt(ts, Search(ts, id), status)

UpdateAt(ts, i, description) ==
    Found(ts, i, Stamped(ts, i, "description", description))

update_item(ts, id, description) == UpdateAt(ts, Search(ts, id), description)

\* del seq[i]
Del(seq, i) == SubSeq(seq, 1, i - 1) \o SubSeq(seq, i + 1, Len(seq))

\* DeleteAt, but the last item is the one deleted
DeleteAt_Last(ts, i) ==
    Found(ts, i, IF i > 0 /\ ts.t = "list"
                 THEN List(Del(ts.elems, Len(ts.elems))) ELSE ts)

DeleteAt(ts, i) ==
    Found(ts, i, IF i > 0 /\ ts.t = "list" THEN List(Del(ts.elems, i)) ELSE ts)

delete_item(ts, id) == DeleteAt(ts, Search(ts, id))

\* max(item["id"] for item in self.tasks) from item i on, cur the largest so
\* far: item["id"] raises on an item without "id", and `>` raises TypeError
\* unless both ids are ints or both are strs (the order of strs is not
\* modelled: a str maximum makes `+ 1` raise whichever it is)
RECURSIVE MaxOfIds(_, _, _)
MaxOfIds(items, i, cur) ==
    IF i > Len(items) THEN [exc |-> "none", val |-> cur]
    ELSE IF ~CanIndex(items[i], "id")
    THEN [exc |-> IndexExc(items[i]), val |-> cur]
    ELSE IF i = 1 THEN MaxOfIds(items, 2, Get(items[i], "id"))
    ELSE IF Get(items[i], "id").k # cur.k \/ cur.k = "none"
    THEN [exc |-> "TypeError", val |-> cur]
    ELSE IF cur.k = "int" /\ Get(items[i], "id").n > cur.n
    THEN MaxOfIds(items, i + 1, Get(items[i], "id"))
    ELSE MaxOfIds(items, i + 1, cur)

\* the dict add_item appends
NewTask(id, description, current_datetime) ==
    Dict(<<Pair("id", PyInt(id)),
           Pair("description", PyStr(description)),
           Pair("status", PyStr("todo")),
           Pair("createdAt", PyStr(current_datetime)),
           Pair("updatedAt", PyStr(current_datetime))>>)

\* AddAfter, but the new task is put in front of the list
AddAfter_Front(ts, m, description) ==
    IF m.exc # "none" THEN MR(ts, FALSE, m.exc)
    ELSE IF m.val.k # "int" THEN MR(ts, FALSE, "TypeError")
    ELSE MR(List(<<NewTask(m.val.n + 1, description, _fetch_current_time)>>
                 \o ts.elems),
            TRUE, "none")

\* add_item on a list that is not empty, m its max(...)
AddAfter(ts, m, description) ==
    IF m.exc # "none" THEN MR(ts, FALSE, m.exc)
    ELSE IF m.val.k # "int" THEN MR(ts, FALSE, "TypeError")
    ELSE MR(List(Append(ts.elems,
                  NewTask(m.val.n + 1, description, _fetch_current_time))),
            TRUE, "none")

\* add_item, but the new id is the number of tasks plus one
add_item_Count(ts, description) ==
    IF ts.t # "list" THEN MR(ts, FALSE, "TypeError")
    ELSE MR(List(Append(ts.elems,
                  NewTask(Len(ts.elems) + 1, description, _fetch_current_time))),
            TRUE, "none")

add_item(ts, description) ==
    IF ts.t # "list" THEN MR(ts, FALSE, "TypeError")
    ELSE IF Len(ts.elems) > 0
    THEN AddAfter(ts, MaxOfIds(ts.elems, 1, PyNone), description)
    ELSE MR(List(<<NewTask(1, description, _fetch_current_time)>>), TRUE, "none")

\* str(x) in an f-string
Str(sc) == IF sc.k = "int" THEN ToString(sc.n)
           ELSE IF sc.k = "str" THEN sc.s ELSE "None"

Fields == <<"id", "description", "status", "createdAt", "updatedAt">>
Labels == <<"ID : ", "Description : ", "Status : ", "Created At : ",
            "Updated At : ">>
Rule == "----------------------------------------"

\* printed lines and the exception that ended the printing ("none": none)
PR(out, ex) == [out |-> out, exc |-> ex]
Then(first, rest) == PR(first \o rest.out, rest.exc)

\* print_item from field i on: the line of the first field the item lacks
\* raises, after the lines before it are out
RECURSIVE PrintLines(_, _)
PrintLines(item, i) ==
    IF i > Len(Fields) THEN PR(<<Rule>>, "none")
    ELSE IF ~CanIndex(item, Fields[i]) THEN PR(<<>>, IndexExc(item))
    ELSE Then(<<Labels[i] \o Str(Get(item, Fields[i]))>>, PrintLines(item, i + 1))

print_item(task_item) == PrintLines(task_item, 1)

(***************************************************************************)
(* CommandHandler.  sys.argv[k] is argv[k + 1]: sequences start at 1.      *)
(***************************************************************************)
\* the integers an argument of the model can spell
ArgInts ==
    ((0 - 1)..(MaxId + 1))
        \cup {GITHUB_DEFAULT_EVENTS_PER_PAGE, GITHUB_DEFAULT_EVENTS_PER_PAGE + 1}

\* some of the spellings int() accepts for n
Spellings(n) ==
    IF n < 0 THEN {ToString(n)}
    ELSE {ToString(n), "0" \o ToString(n), "+" \o ToString(n)}

IntOf == [s \in UNION {Spellings(n) : n \in ArgInts} |->
            CHOOSE n \in ArgInts : s \in Spellings(n)]

\* int(s) raises ValueError unless s spells an integer
CanInt(s) == s \in DOMAIN IntOf
int(s) == IntOf[s]

\* the result of a handler: the list after it, its return value, the
\* exception that left it and the lines it printed
HR(ts, ret, ex, out) == [tasks |-> ts, ret |-> ret, exc |-> ex, out |-> out]

\* what a handler makes of the result r of the TaskManager method it called
Report(r, found, notfound) ==
    IF r.exc # "none" THEN HR(r.tasks, FALSE, r.exc, <<>>)
    ELSE IF r.ret THEN HR(r.tasks, TRUE, "none", <<found>>)
    ELSE HR(r.tasks, FALSE, "none", <<notfound>>)

InvalidId == "Error: Invalid ID format. ID should be an integer."

handle_add_command(a, ts) ==
    IF Len(a) # ADD_COMMAND_LENGTH \/ a[3] = ""
    THEN HR(ts, FALSE, "none",
            <<"Error: 'add' requires exactly 1 argument and cannot be empty string.",
              "Usage: python task_cli.py add <description>">>)
    ELSE Report(add_item(ts, a[3]),
                " Task '" \o a[3] \o "' is added successfully", "")

\* handle_del_command, but the ValueError of int() is not caught
handle_del_command_Raises(a, ts) ==
    IF Len(a) # DELETE_COMMAND_LENGTH
    THEN HR(ts, FALSE, "none",
            <<"Error: 'delete' requires exactly 1 argument.",
              "Usage: python task_cli.py delete <id>">>)
    ELSE IF ~CanInt(a[3]) THEN HR(ts, FALSE, "ValueError", <<>>)
    ELSE Report(delete_item(ts, int(a[3])),
                "Task with ID: " \o a[3] \o " deleted successfully.",
                "Error: Task with ID " \o a[3] \o " not found.")

handle_del_command(a, ts) ==
    IF Len(a) # DELETE_COMMAND_LENGTH
    THEN HR(ts, FALSE, "none",
            <<"Error: 'delete' requires exactly 1 argument.",
              "Usage: python task_cli.py delete <id>">>)
    ELSE IF ~CanInt(a[3]) THEN HR(ts, FALSE, "none", <<InvalidId>>)
    ELSE Report(delete_item(ts, int(a[3])),
                "Task with ID: " \o a[3] \o " deleted successfully.",
                "Error: Task with ID " \o a[3] \o " not found.")

handle_update_command(a, ts) ==
    IF Len(a) # UPDATE_COMMAND_LENGTH
    THEN HR(ts, FALSE, "none",
            <<"Error: 'update' requires exactly 2 arguments.",
              "Usage: python task_cli.py update <id> <description>">>)
    ELSE IF a[4] = ""
    THEN HR(ts, FALSE, "none", <<"Error: Description cannot be an empty string.">>)
    ELSE IF ~CanInt(a[3]) THEN HR(ts, FALSE, "none", <<InvalidId>>)
    ELSE Report(update_item(ts, int(a[3]), a[4]),
                "Task with ID: " \o a[3] \o " updated successfully",
                "Error: Task with ID: " \o a[3] \o " not found.")

\* the three mark handlers differ in the command name and the status only
HandleMark(a, ts, command, status) ==
    IF Len(a) # MARK_STATUS_COMMAND_LENGTH
    THEN HR(ts, FALSE, "none",
            <<"Error: '" \o command \o "' requires exactly 1 argument.",
              "Usage: python task_cli.py " \o command \o " <id>">>)
    ELSE IF ~CanInt(a[3]) THEN HR(ts, FALSE, "none", <<InvalidId>>)
    ELSE Report(mark_status(ts, int(a[3]), status),
                "Task with ID: " \o a[3] \o " marked as " \o status
                    \o " successfully.",
                "Error: Task with ID: " \o a[3] \o " not found.")

handle_mark_in_progress_command(a, ts) ==
    HandleMark(a, ts, "mark-in-progress", "in-progress")

handle_mark_done_command(a, ts) == HandleMark(a, ts, "mark-done", "done")

handle_mark_todo_command(a, ts) == HandleMark(a, ts, "mark-todo", "todo")

\* the printing of one list loop: the lines, the exception that ended it
\* and found_any_task
LR(out, ex, found) == [out |-> out, exc |-> ex, found |-> found]

\* Printed, but the loop ends after the first task it printed
Printed_Once(items, i, filter, found, p) == LR(p.out, p.exc, p.exc = "none")

RECURSIVE ListLoop(_, _, _, _)
\* the loop after print_item(items[i]) gave p
Printed(items, i, filter, found, p) ==
    IF p.exc # "none" THEN LR(p.out, p.exc, found)
    ELSE LR(p.out \o ListLoop(items, i + 1, filter, TRUE).out,
            ListLoop(items, i + 1, filter, TRUE).exc,
            ListLoop(items, i + 1, filter, TRUE).found)

\* the loop of handle_list_command from item i on: print_item for every item
\* (filter "") or for the items whose status is the filter
ListLoop(items, i, filter, found) ==
    IF i > Len(items) THEN LR(<<>>, "none", found)
    ELSE IF filter # "" /\ ~CanIndex(items[i], "status")
    THEN LR(<<>>, IndexExc(items[i]), found)
    ELSE IF filter # "" /\ Get(items[i], "status") # PyStr(filter)
    THEN ListLoop(items, i + 1, filter, found)
    ELSE Printed(items, i, filter, found, print_item(items[i]))

\* what handle_list_command makes of its loop l
Listed(ts, l, nothing) ==
    IF l.exc # "none" THEN HR(ts, FALSE, l.exc, l.out)
    ELSE IF ~l.found THEN HR(ts, FALSE, "none", <<nothing>>)
    ELSE HR(ts, TRUE, "none", l.out)

handle_list_command(a, ts) ==
    IF Len(a) = LIST_WITHOUT_ARGUMENT_LENGTH
    THEN IF ~Iterable(ts) THEN HR(ts, FALSE, "TypeError", <<>>)
         ELSE Listed(ts, ListLoop(Items(ts), 1, "", FALSE), "No tasks found.")
    ELSE IF Len(a) = LIST_WITH_ARGUMENT_LENGTH
    THEN IF a[3] \in {"todo", "in-progress", "done"}
         THEN IF ~Iterable(ts) THEN HR(ts, FALSE, "TypeError", <<>>)
              ELSE Listed(ts, ListLoop(Items(ts), 1, a[3], FALSE),
                          "No tasks found with status " \o a[3])
         ELSE HR(ts, FALSE, "none",
                 <<"Error: Unknown status '" \o a[3] \o "' list requested",
                   "Usage: python task_cli.py list [todo|in-progress|done]">>)
    ELSE HR(ts, FALSE, "none",
            <<"Error: list takes 0 or 1 argument.",
              "Usage: python task_cli.py list [todo|in-progress|done]">>)

(***************************************************************************)
(* JSONHandler                                                             *)
(***************************************************************************)
\* the result of read_tasks_from_json: the value returned, the file after
\* the call, the lines printed and the exception raised
RR(val, f, out, ex) == [val |-> val, file |-> f, out |-> out, exc |-> ex]

\* json.load gave r: text that is no JSON gives [] and a warning (the file
\* stays as it is), null gives [], any other value is returned as it is
Loaded(f, r) ==
    IF ~r.ok
    THEN RR(List(<<>>), f,
            <<"Invalid JSON exist. Overwriting task_list.json with empty task list.">>,
            "none")
    ELSE IF r.val = Scalar(PyNone) THEN RR(List(<<>>), f, <<>>, "none")
    ELSE RR(r.val, f, <<>>, "none")

\* read_tasks_from_json: a missing file is created holding []; bytes that
\* are not UTF-8 raise UnicodeDecodeError, which the method does not catch
read_tasks_from_json(f) ==
    IF f.kind = "missing"
    THEN RR(List(<<>>), Text(json_dump(List(<<>>))), <<>>, "none")
    ELSE IF f.kind = "bytes" THEN RR(Unbound, f, <<>>, "UnicodeDecodeError")
    ELSE Loaded(f, json_load(f.toks))

write_tasks_to_json(tasks_list) == Text(json_dump(tasks_list))

(***************************************************************************)
(* __main__: one invocation of the program with command line a.            *)
(***************************************************************************)
MutatingCommands ==
    {"add", "delete", "update", "mark-in-progress", "mark-done", "mark-todo"}

\* the if/elif chain over sys.argv[1]
Dispatch(a, ts) ==
    IF a[2] = "add" THEN handle_add_command(a, ts)
    ELSE IF a[2] = "delete" THEN handle_del_command(a, ts)
    ELSE IF a[2] = "update" THEN handle_update_command(a, ts)
    ELSE IF a[2] = "mark-in-progress" THEN handle_mark_in_progress_command(a, ts)
    ELSE IF a[2] = "mark-done" THEN handle_mark_done_command(a, ts)
    ELSE IF a[2] = "mark-todo" THEN handle_mark_todo_command(a, ts)
    ELSE IF a[2] = "list" THEN handle_list_command(a, ts)
    ELSE HR(ts, FALSE, "none",
            <<"Error: Unknown command " \o a[2],
              "Usage: python task_cli.py [add|delete|update|mark-in-progress|mark-done|mark-todo|list] <args>">>)

\* the state an invocation ends in
Ended(a, f, ld, ts, ok, ex, out, wr) ==
    /\ pc' = "ended"
    /\ argv' = a
    /\ before' = file
    /\ file' = f
    /\ loaded' = ld
    /\ tasks' = ts
    /\ operation_success' = ok
    /\ exc' = ex
    /\ stdout' = out
    /\ wrote' = wr
    /\ UNCHANGED <<now, issued>>
    /\ UNCHANGED <<activity_vars, handler_vars, race_vars>>

\* Finish, but mark-todo is not among the commands that write the file
Finish_MarkTodoUnsaved(a, rd, h) ==
    IF h.exc # "none"
    THEN Ended(a, rd.file, rd.val, h.tasks, FALSE, h.exc, rd.out \o h.out, FALSE)
    ELSE IF a[2] \in MutatingCommands \ {"mark-todo"} /\ h.ret
    THEN Ended(a, write_tasks_to_json(h.tasks), rd.val, h.tasks, TRUE, "none",
               rd.out \o h.out, TRUE)
    ELSE Ended(a, rd.file, rd.val, h.tasks, h.ret, "none", rd.out \o h.out, FALSE)

\* __main__ after the dispatch gave h: the file is written when a mutating
\* command succeeded; an exception out of a handler other than IndexError
\* is not caught and ends the process
Finish(a, rd, h) ==
    IF h.exc # "none"
    THEN Ended(a, rd.file, rd.val, h.tasks, FALSE, h.exc, rd.out \o h.out, FALSE)
    ELSE IF a[2] \in MutatingCommands /\ h.ret
    THEN Ended(a, write_tasks_to_json(h.tasks), rd.val, h.tasks, TRUE, "none",
               rd.out \o h.out, TRUE)
    ELSE Ended(a, rd.file, rd.val, h.tasks, h.ret, "none", rd.out \o h.out, FALSE)

\* __main__ after read_tasks_from_json gave rd: sys.argv[1] raises
\* IndexError, which is caught, when there is no command
Run(a, rd) ==
    IF rd.exc # "none"
    THEN Ended(a, rd.file, rd.val, rd.val, FALSE, rd.exc, rd.out, FALSE)
    ELSE IF Len(a) < 2
    THEN Ended(a, rd.file, rd.val, rd.val, FALSE, "none",
               rd.out \o <<"Error: Missing arguments or command.",
                           "Usage: python task_cli.py [add|delete|update|mark-in-progress|mark-done|list] <args>">>,
               FALSE)
    ELSE Finish(a, rd, Dispatch(a, rd.val))

\* __main__ run with command line a
Main(a) == Run(a, read_tasks_from_json(file))

(***************************************************************************)
(* The command lines the model runs.                                       *)
(***************************************************************************)
Prog == "task_cli.py"
IdArgs == {ToString(n) : n \in 1..MaxId} \cup {"02", "x"}

AddArgv ==
    {<<Prog, "add", d>> : d \in {"a", ""}}
        \cup {<<Prog, "add">>, <<Prog, "add", "a", "b">>}
DeleteArgv == {<<Prog, "delete", i>> : i \in IdArgs} \cup {<<Prog, "delete">>}
UpdateArgv ==
    {<<Prog, "update", i, "b">> : i \in IdArgs}
        \cup {<<Prog, "update", "1", "">>, <<Prog, "update", "1">>}
MarkArgv(command) ==
    {<<Prog, command, i>> : i \in IdArgs} \cup {<<Prog, command>>}
ListArgv ==
    {<<Prog, "list">>, <<Prog, "list", "todo", "done">>}
        \cup {<<Prog, "list", s>> : s \in {"todo", "in-progress", "done", "all"}}

\* the bounds: an add goes through while the list and its ids stay small
Bounded(ts) ==
    /\ Len(ts.elems) <= MaxLen
    /\ \A i \in 1..Len(ts.elems) :
          CanIndex(ts.elems[i], "id") => Get(ts.elems[i], "id").n <= MaxId

\* one action for each sub-command: a process is started with a command
\* line of that sub-command and runs __main__ to its end
Add ==
    /\ pc = "idle"
    /\ \E a \in AddArgv : Main(a) /\ Bounded(tasks')

Delete ==
    /\ pc = "idle"
    /\ \E a \in DeleteArgv : Main(a)

Update ==
    /\ pc = "idle"
    /\ \E a \in UpdateArgv : Main(a)

MarkInProgress ==
    /\ pc = "idle"
    /\ \E a \in MarkArgv("mark-in-progress") : Main(a)

MarkDone ==
    /\ pc = "idle"
    /\ \E a \in MarkArgv("mark-done") : Main(a)

MarkTodo ==
    /\ pc = "idle"
    /\ \E a \in MarkArgv("mark-todo") : Main(a)

ListTasks ==
    /\ pc = "idle"
    /\ \E a \in ListArgv : Main(a)

UnknownCommand ==
    /\ pc = "idle"
    /\ Main(<<Prog, "remove", "1">>)

NoCommand ==
    /\ pc = "idle"
    /\ Main(<<Prog>>)

\* the process exits: its memory and its output are gone
Exit ==
    /\ pc = "ended"
    /\ pc' = "idle"
    /\ argv' = <<>>
    /\ before' = file
    /\ loaded' = Unbound
    /\ tasks' = Unbound
    /\ operation_success' = FALSE
    /\ exc' = "none"
    /\ stdout' = <<>>
    /\ wrote' = FALSE
    /\ issued' = IF Len(argv) >= 2 /\ argv[2] = "add" /\ operation_success
                 THEN issued \cup {Get(tasks.elems[Len(tasks.elems)], "id").n}
                 ELSE issued
    /\ UNCHANGED <<file, now>>
    /\ UNCHANGED <<activity_vars, handler_vars, race_vars>>

\* a second passes between two invocations
Tick ==
    /\ pc = "idle"
    /\ now < MaxTime
    /\ now' = now + 1
    /\ UNCHANGED <<pc, file, argv, before, loaded, tasks, operation_success, exc,
                   stdout, wrote, issued>>
    /\ UNCHANGED <<activity_vars, handler_vars, race_vars>>

Next ==
    \/ Add
    \/ Delete
    \/ Update
    \/ MarkInProgress
    \/ MarkDone
    \/ MarkTodo
    \/ ListTasks
    \/ UnknownCommand
    \/ NoCommand
    \/ Exit
    \/ Tick

\* before the first invocation: nothing has run
Fresh(f) ==
    /\ pc = "idle"
    /\ file = f
    /\ now = 0
    /\ argv = <<>>
    /\ before = f
    /\ loaded = Unbound
    /\ tasks = Unbound
    /\ operation_success = FALSE
    /\ exc = "none"
    /\ stdout = <<>>
    /\ wrote = FALSE
    /\ issued = {}

\* the store is new: there is no task file yet
Init == Fresh(Missing) /\ Quiet(Missing) /\ Unasked /\ Alone

Spec == Init /\ [][Next]_vars

(***************************************************************************)
(* The same program started on a task file that something else wrote.      *)
(***************************************************************************)
\* a task as the program stores it, stamped at second 0
Stored(id, description, status) ==
    Put(NewTask(id, description, strftime(0)), "status", PyStr(status))

\* d without its key
Without(d, key) ==
    Dict(SelectSeq(d.pairs, LAMBDA p : p.key # key))

InitialFiles ==
    {Missing, Undecodable,
     \* an empty file, a truncated one
     Text(<<>>), Text(<<P("["), P("{")>>),
     \* null, a number, an empty object, an object
     Text(json_dump(Scalar(PyNone))), Text(json_dump(Scalar(PyInt(1)))),
     Text(json_dump(Dict(<<>>))), Text(json_dump(Dict(<<Pair("id", PyInt(1))>>))),
     \* lists of tasks: none, three of which two share id 1
     Text(json_dump(List(<<>>))),
     Text(json_dump(List(<<Stored(1, "a", "todo"), Stored(2, "a", "done"),
                           Stored(1, "b", "in-progress")>>))),
     \* lists with an element that is no task: no id, no status, a number,
     \* an id that is a string
     Text(json_dump(List(<<Stored(2, "a", "todo"),
                           Without(Stored(1, "a", "todo"), "id")>>))),
     Text(json_dump(List(<<Without(Stored(1, "a", "todo"), "status")>>))),
     Text(json_dump(List(<<Scalar(PyInt(1))>>))),
     Text(json_dump(List(<<Put(Stored(1, "a", "todo"), "id", PyStr("1"))>>)))}

InitFile ==
    \E f \in InitialFiles : Fresh(f) /\ Quiet(Missing) /\ Unasked /\ Alone

SpecFile == InitFile /\ [][Next]_vars

(***************************************************************************)
(* The activity viewer.                                                    *)
(***************************************************************************)
\* how far, in seconds, the clock goes past second 0 and past the TTL
MaxSkew == 1

\* the seconds the clock of the model shows
Instants ==
    (0..MaxSkew) \cup (CACHE_TTL_SECONDS..(CACHE_TTL_SECONDS + MaxSkew))

(***************************************************************************)
(* Time stamps.  The conversions between datetimes and strings are tables  *)
(* over the strings of the model; a datetime is [aware, sec].              *)
(***************************************************************************)
ClockOf(n) ==
    Pad2(n \div 3600) \o ":" \o Pad2((n \div 60) % 60) \o ":" \o Pad2(n % 60)

\* datetime.now(timezone.utc).isoformat() at second n (whole seconds)
isoformat(n) == "2026-01-01T" \o ClockOf(n) \o "+00:00"

\* the same instant with the suffix Z, and without any offset
Zulu(n) == "2026-01-01T" \o ClockOf(n) \o "Z"
Naive(n) == "2026-01-01T" \o ClockOf(n)

\* s.replace("+00:00", "Z")
ZForOffset ==
    [s \in {isoformat(n) : n \in Instants} |->
        Zulu(CHOOSE n \in Instants : isoformat(n) = s)]
replace_offset(s) == IF s \in DOMAIN ZForOffset THEN ZForOffset[s] ELSE s

\* s.replace("Z", "+00:00")
OffsetForZ ==
    [s \in {Zulu(n) : n \in Instants} |->
        isoformat(CHOOSE n \in Instants : Zulu(n) = s)]
replace_Z(s) == IF s \in DOMAIN OffsetForZ THEN OffsetForZ[s] ELSE s

\* datetime.fromisoformat(s): a string with an offset gives an aware
\* datetime, one without a naive datetime, any other raises ValueError
Datetimes ==
    [s \in {isoformat(n) : n \in Instants} \cup {Naive(n) : n \in Instants} |->
        IF s \in {isoformat(n) : n \in Instants}
        THEN [aware |-> TRUE, sec |-> CHOOSE n \in Instants : isoformat(n) = s]
        ELSE [aware |-> FALSE, sec |-> CHOOSE n \in Instants : Naive(n) = s]]
CanParse(s) == s \in DOMAIN Datetimes
fromisoformat(s) == Datetimes[s]

(***************************************************************************)
(* The cache file: a JSON object whose members are JSON values.            *)
(***************************************************************************)
None == Scalar(PyNone)

\* bool(v)
Truthy(v) ==
    IF v.t = "scalar"
    THEN (v.sc.k = "int" /\ v.sc.n # 0) \/ (v.sc.k = "str" /\ v.sc.s # "")
    ELSE IF v.t = "list" THEN v.elems # <<>>
    ELSE IF v.t = "dict" THEN v.pairs # <<>>
    ELSE FALSE

\* d.get(key, default)
get(d, key, default) == IF key \in Keys(d) THEN Get(d, key) ELSE default

DumpMember(p) == <<Tok("s", p.key), P(":")>> \o json_dump(p.val)

RECURSIVE DumpMembers(_)
DumpMembers(ps) ==
    IF ps = <<>> THEN <<>>
    ELSE IF Tail(ps) = <<>> THEN DumpMember(Head(ps))
    ELSE DumpMember(Head(ps)) \o <<P(",")>> \o DumpMembers(Tail(ps))

\* json.dump(cache, file, indent=4) of a dict of values
dump_cache(d) == <<P("{")>> \o DumpMembers(d.pairs) \o <<P("}")>>

\* the value that starts at token i: an array, an object or a scalar
ParseAt(toks, i) ==
    IF i > Len(toks) THEN Bad
    ELSE IF toks[i] = P("[")
    THEN IF i + 1 <= Len(toks) /\ toks[i + 1] = P("]")
         THEN Res(TRUE, List(<<>>), i + 2)
         ELSE ParseElems(toks, i + 1, <<>>)
    ELSE ParseItem(toks, i)

\* the members of the top-level object, from token i on, up to the closing
\* brace; acc is the dict read so far and r the value of the member key
RECURSIVE ParseMembers(_, _, _)
AfterMember(toks, key, acc, r) ==
    IF ~r.ok \/ r.next > Len(toks) THEN Bad
    ELSE IF toks[r.next] = P("}")
    THEN Res(TRUE, Put(acc, key, r.val), r.next + 1)
    ELSE IF toks[r.next] = P(",")
    THEN ParseMembers(toks, r.next + 1, Put(acc, key, r.val))
    ELSE Bad

ParseMembers(toks, i, acc) ==
    IF i + 2 > Len(toks) THEN Bad
    ELSE IF toks[i].k # "s" \/ toks[i + 1] # P(":") THEN Bad
    ELSE AfterMember(toks, toks[i].v, acc, ParseAt(toks, i + 2))

\* json.load(file) of the cache file
load_cache(toks) ==
    IF toks # <<>> /\ toks[1] = P("{")
    THEN IF Len(toks) >= 2 /\ toks[2] = P("}")
         THEN WholeText(toks, Res(TRUE, Dict(<<>>), 3))
         ELSE WholeText(toks, ParseMembers(toks, 2, Dict(<<>>)))
    ELSE json_load(toks)

(***************************************************************************)
(* EventsCacheHandler                                                      *)
(***************************************************************************)
\* the result of a method: its return value, the exception it raised
\* ("none": it returned) and the messages it logged
CR(ret, ex, log) == [ret |-> ret, exc |-> ex, log |-> log]

\* the dict main() stores
Envelope(timestamp, ttl, evs) ==
    Dict(<<Pair("timestamp", timestamp),
           Pair("ttl", Scalar(PyInt(ttl))),
           Pair("events", evs)>>)

\* write_cache: the file after the call; open() raising OSError leaves the
\* file as it is and is logged
write_cache(c, d, fails) == IF fails THEN c ELSE Text(dump_cache(d))

\* Elapsed, but an envelope is expired from ttl_seconds on
Elapsed_AtLeast(cached_time, ttl_seconds, current) ==
    IF ~cached_time.aware THEN CR(FALSE, "TypeError", <<>>)
    ELSE IF ttl_seconds.t # "scalar" \/ ttl_seconds.sc.k # "int"
    THEN CR(FALSE, "TypeError", <<>>)
    ELSE CR(current - cached_time.sec >= ttl_seconds.sc.n, "none", <<>>)

\* now - cached_time and its comparison with ttl_seconds: a naive datetime
\* cannot be subtracted from an aware one, and a number cannot be compared
\* with a str, None, a list or a dict (both raise TypeError)
Elapsed(cached_time, ttl_seconds, current) ==
    IF ~cached_time.aware THEN CR(FALSE, "TypeError", <<>>)
    ELSE IF ttl_seconds.t # "scalar" \/ ttl_seconds.sc.k # "int"
    THEN CR(FALSE, "TypeError", <<>>)
    ELSE CR(current - cached_time.sec > ttl_seconds.sc.n, "none", <<>>)

\* _is_cache_expired at second current of the clock: a cached_at without
\* .replace (AttributeError) or that does not parse (ValueError) is expired
_is_cache_expired(cached_at, ttl_seconds, current) ==
    IF cached_at.t # "scalar" \/ cached_at.sc.k # "str"
    THEN CR(TRUE, "none", <<"Invalid cache timestamp, treating cache as expired">>)
    ELSE IF ~CanParse(replace_Z(cached_at.sc.s))
    THEN CR(TRUE, "none", <<"Invalid cache timestamp, treating cache as expired">>)
    ELSE Elapsed(fromisoformat(replace_Z(cached_at.sc.s)), ttl_seconds, current)

\* Usable, but an expired envelope is served as well
Usable_Expired(evs, x) ==
    IF x.exc # "none" THEN CR(None, x.exc, x.log)
    ELSE CR(evs, "none", x.log)

\* `if timestamp and not self._is_cache_expired(...)`, x the result of the
\* call
Usable(evs, x) ==
    IF x.exc # "none" THEN CR(None, x.exc, x.log)
    ELSE IF x.ret THEN CR(None, "none", x.log)
    ELSE CR(evs, "none", x.log)

\* check_cache_usability after the three .get
Fields3(timestamp, ttl, evs, current) ==
    IF evs.t # "list"
    THEN CR(None, "none", <<"Invalid cache format, ignoring cache">>)
    ELSE IF Truthy(timestamp)
    THEN Usable(evs, _is_cache_expired(timestamp, ttl, current))
    ELSE CR(None, "none", <<>>)

\* check_cache_usability after json.load gave r: .get of a value that is
\* no dict raises AttributeError
Decoded(r, current) ==
    IF ~r.ok THEN CR(None, "none", <<"Failed to read cache file">>)
    ELSE IF r.val.t # "dict" THEN CR(None, "AttributeError", <<>>)
    ELSE Fields3(get(r.val, "timestamp", None),
                 get(r.val, "ttl", Scalar(PyInt(CACHE_TTL_SECONDS))),
                 get(r.val, "events", List(<<>>)),
                 current)

\* check_cache_usability on cache file c at second current: bytes that are
\* not UTF-8 raise UnicodeDecodeError, which is neither OSError nor
\* JSONDecodeError
check_cache_usability(c, current) ==
    IF c.kind = "missing" THEN CR(None, "none", <<>>)
    ELSE IF c.kind = "bytes" THEN CR(None, "UnicodeDecodeError", <<>>)
    ELSE Decoded(load_cache(c.toks), current)

(***************************************************************************)
(* GitHubAPIClient.  What the network and the user do is an input of the   *)
(* invocation: the answers to the first and to the second request, the     *)
(* GITHUB_TOKEN of the environment and what the prompt gives.              *)
(***************************************************************************)
\* an event record with the key "type" only
Event(type) == Dict(<<Pair("type", PyStr(type))>>)

\* answers to a request: a body that decodes to a list of events, an HTTP
\* error status, a transport error (URLError), a timeout while the body is
\* read (TimeoutError) and a body that is no JSON (JSONDecodeError)
Ok(evs) == [kind |-> "ok", code |-> 200, body |-> List(evs)]
Http(code) == [kind |-> "HTTPError", code |-> code, body |-> None]
Failure(kind) == [kind |-> kind, code |-> 0, body |-> None]

Bodies ==
    {<<>>,
     <<Event("PushEvent")>>,
     <<Event("WatchEvent"), Event("PushEvent"), Event("GollumEvent"),
       Event("PushEvent")>>}

Answers ==
    {Ok(evs) : evs \in Bodies}
        \cup {Http(code) : code \in {401, 403, 404, 500}}
        \cup {Failure(kind) : kind \in {"URLError", "TimeoutError", "JSONDecodeError"}}

\* what getpass gives: the text typed, or the exception it raises
Typed(text) == [exc |-> "none", text |-> text]
Prompts ==
    {Typed("secret"), Typed("")}
        \cup {[exc |-> e, text |-> ""] : e \in {"KeyboardInterrupt", "EOFError", "OSError"}}

\* self.headers
headers == <<Pair("User-Agent", "github-user-activity-cli")>>

\* the result of a client method: the return value, the exception raised,
\* the headers of the requests sent, whether a token was asked for,
\* self.timestamp and the messages logged
FR(ret, ex, requests, token_read, timestamp, log) ==
    [called |-> TRUE, ret |-> ret, exc |-> ex, requests |-> requests,
     token_read |-> token_read, timestamp |-> timestamp, log |-> log]

\* _get_github_token: os.getenv first, the prompt when it gives nothing; an
\* interrupted or unreadable prompt gives None
_get_github_token(env_token, prompt) ==
    IF env_token # "" THEN CR(Scalar(PyStr(env_token)), "none", <<>>)
    ELSE IF prompt.exc \in {"KeyboardInterrupt", "EOFError"}
    THEN CR(None, "none", <<"Input cancelled by user">>)
    ELSE IF prompt.exc = "OSError"
    THEN CR(None, "none", <<"Cannot read input">>)
    ELSE CR(Scalar(PyStr(prompt.text)), "none", <<>>)

\* _make_request with headers h when the network answers a, at second
\* current: urlopen or json.loads raise, or the body is returned and
\* self.timestamp is set
_make_request(h, a, current, stamp) ==
    IF a.kind # "ok" THEN FR(None, a.kind, <<h>>, FALSE, stamp, <<>>)
    ELSE FR(a.body, "none", <<h>>, FALSE,
            Scalar(PyStr(replace_offset(isoformat(current)))),
            IF Truthy(a.body) THEN <<>> ELSE <<"No activity found for user">>)

\* Retried, but a request that fails with an HTTP status is sent once more
Retried_Again(token, q) ==
    IF q.exc = "HTTPError"
    THEN FR(None, "none", q.requests \o q.requests, TRUE, q.timestamp,
            token.log \o <<"Authentication failed or access denied">>)
    ELSE FR(q.ret, q.exc, q.requests, TRUE, q.timestamp, token.log \o q.log)

\* _retry_request_with_token once the token is read: q is the request made
\* with it; only HTTPError is caught
Retried(token, q) ==
    IF q.exc = "HTTPError"
    THEN FR(None, "none", q.requests, TRUE, q.timestamp,
            token.log \o <<"Authentication failed or access denied">>)
    ELSE FR(q.ret, q.exc, q.requests, TRUE, q.timestamp, token.log \o q.log)

WithToken(token, a, current, stamp) ==
    IF ~Truthy(token.ret)
    THEN FR(List(<<>>), "none", <<>>, TRUE, stamp, token.log)
    ELSE Retried(token,
                 _make_request(
                     Append(headers,
                            Pair("Authorization", "Bearer " \o token.ret.sc.s)),
                     a, current, stamp))

_retry_request_with_token(env_token, prompt, a, current, stamp) ==
    WithToken(_get_github_token(env_token, prompt), a, current, stamp)

\* fetch_activity after the retry it made in its except clause gave r: an
\* exception raised there leaves fetch_activity
AfterRetry(q, log, r) ==
    FR(r.ret, r.exc, q.requests \o r.requests, r.token_read, r.timestamp,
       log \o r.log)

\* First, but every HTTP status is retried with a token
First_AlwaysRetry(q, code, env_token, prompt, second, current) ==
    IF q.exc = "none" THEN q
    ELSE IF q.exc = "HTTPError"
    THEN AfterRetry(q, <<>>,
             _retry_request_with_token(env_token, prompt, second, current,
                                       q.timestamp))
    ELSE IF q.exc = "URLError"
    THEN FR(None, "none", q.requests, FALSE, q.timestamp, <<"URL Error">>)
    ELSE FR(None, "none", q.requests, FALSE, q.timestamp,
            <<"Error fetching data from GitHub API">>)

\* fetch_activity after its first request gave q
First(q, code, env_token, prompt, second, current) ==
    IF q.exc = "none" THEN q
    ELSE IF q.exc = "HTTPError" /\ code = 401
    THEN AfterRetry(q, <<>>,
             _retry_request_with_token(env_token, prompt, second, current,
                                       q.timestamp))
    ELSE IF q.exc = "HTTPError" /\ code = 403
    THEN AfterRetry(q,
             <<"Access forbidden or rate limit may have been exceeded. Try again with a token or wait and retry.">>,
             _retry_request_with_token(env_token, prompt, second, current,
                                       q.timestamp))
    ELSE IF q.exc = "HTTPError" /\ code = 404
    THEN FR(None, "none", q.requests, FALSE, q.timestamp,
            <<"User not found on GitHub or Access denied.">>)
    ELSE IF q.exc = "HTTPError"
    THEN FR(None, "none", q.requests, FALSE, q.timestamp, <<"HTTP Error">>)
    ELSE IF q.exc = "URLError"
    THEN FR(None, "none", q.requests, FALSE, q.timestamp, <<"URL Error">>)
    ELSE FR(None, "none", q.requests, FALSE, q.timestamp,
            <<"Error fetching data from GitHub API">>)

\* fetch_activity of a new client (self.timestamp is None) in environment
\* e = [first, second, env_token, prompt]
fetch_activity(e, current) ==
    First(_make_request(headers, e.first, current, None), e.first.code,
          e.env_token, e.prompt, e.second, current)

(***************************************************************************)
(* Python expressions over event records.  An event record is a dict whose *)
(* members are values: scalars, dicts and lists, nested as in the JSON the *)
(* API sends.  An expression that raises has the value Raise(exception).   *)
(***************************************************************************)
Lit(s) == Scalar(PyStr(s))

Raise(ex) == [t |-> "raise", sc |-> PyStr(ex), pairs |-> <<>>, elems |-> <<>>]

IsStr(v) == v.t = "scalar" /\ v.sc.k = "str"

\* the first exception raised while the expressions vs were evaluated in
\* turn, or result when none was
Try(vs, result) ==
    IF \E i \in 1..Len(vs) : vs[i].t = "raise"
    THEN vs[CHOOSE i \in 1..Len(vs) :
                /\ vs[i].t = "raise"
                /\ \A j \in 1..(i - 1) : vs[j].t # "raise"]
    ELSE result

\* v.get(key, default): only a dict has .get
dot_get(v, key, default) ==
    IF v.t = "raise" THEN v
    ELSE IF v.t # "dict" THEN Raise("AttributeError")
    ELSE get(v, key, default)

\* v[0]: the first element of a list, the first character of a str; a dict
\* built from JSON has no key 0, an int and None cannot be indexed
first_of(v) ==
    IF v.t = "raise" THEN v
    ELSE IF v.t = "list"
    THEN (IF v.elems = <<>> THEN Raise("IndexError") ELSE v.elems[1])
    ELSE IF v.t = "dict" THEN Raise("KeyError")
    ELSE IF IsStr(v)
    THEN (IF v.sc.s = "" THEN Raise("IndexError") ELSE Lit(SubSeq(v.sc.s, 1, 1)))
    ELSE Raise("TypeError")

\* {v} in an f-string: str(v) (of the containers, the empty ones are
\* spelled out: where a record of the model is formatted it holds a scalar)
format(v) ==
    IF v.t = "scalar" THEN Str(v.sc)
    ELSE IF v.t = "dict" THEN (IF v.pairs = <<>> THEN "{}" ELSE "{...}")
    ELSE IF v.t = "list" THEN (IF v.elems = <<>> THEN "[]" ELSE "[...]")
    ELSE Str(v.sc)

\* s.startswith(prefix)
startswith(s, prefix) ==
    Len(s) >= Len(prefix) /\ SubSeq(s, 1, Len(prefix)) = prefix

\* s.removeprefix(prefix)
removeprefix(s, prefix) ==
    IF startswith(s, prefix) THEN SubSeq(s, Len(prefix) + 1, Len(s)) ELSE s

\* s.replace(old, new), old not empty: every occurrence of old, found from
\* the left without overlap, is replaced
RECURSIVE replace(_, _, _)
replace(s, old, new) ==
    IF Len(s) < Len(old) THEN s
    ELSE IF startswith(s, old)
    THEN new \o replace(SubSeq(s, Len(old) + 1, Len(s)), old, new)
    ELSE SubSeq(s, 1, 1) \o replace(SubSeq(s, 2, Len(s)), old, new)

(***************************************************************************)
(* GitHubEventHandler                                                      *)
(***************************************************************************)
HANDLERS ==
    {"CreateEvent", "PushEvent", "DeleteEvent", "ForkEvent", "WatchEvent",
     "IssuesEvent", "PullRequestEvent"}

get_supported_events == HANDLERS

\* event.get("type") of an event whose members are scalars
TypeOf(event) == IF "type" \in Keys(event) THEN Get(event, "type") ELSE PyNone

\* event.get("repo", {}).get("name", "unknown_repository")
repo_name(event) ==
    dot_get(dot_get(event, "repo", Dict(<<>>)), "name",
            Lit("unknown_repository"))

\* event.get("payload", {})
payload(event) == dot_get(event, "payload", Dict(<<>>))

\* the return statements of _handle_create_event
Created(repo, ref, ref_type) ==
    IF ref_type = Lit("repository")
    THEN Lit("Created a new repository '" \o format(repo) \o "'")
    ELSE IF ref_type = Lit("tag")
    THEN Lit("Created a new tag '" \o format(ref) \o "' in '"
                \o format(repo) \o "'")
    ELSE IF ref_type = Lit("branch")
    THEN Lit("Created a new branch '" \o format(ref) \o "' in '"
                \o format(repo) \o "'")
    ELSE Lit("Created a new '" \o format(ref) \o "' in '" \o format(repo)
                \o "'")

_handle_create_event(event) ==
    Try(<<repo_name(event),
          dot_get(payload(event), "ref", Lit("unknown_ref")),
          dot_get(payload(event), "ref_type", Lit("unknown_ref_type"))>>,
        Created(repo_name(event),
                dot_get(payload(event), "ref", Lit("unknown_ref")),
                dot_get(payload(event), "ref_type", Lit("unknown_ref_type"))))

\* _handle_push_event from ref.startswith on: a ref that is no str has no
\* startswith
Pushed(repo, ref) ==
    IF ~IsStr(ref) THEN Raise("AttributeError")
    ELSE IF startswith(ref.sc.s, "refs/heads/")
    THEN Lit("Pushed commit(s) to branch '"
                \o replace(ref.sc.s, "refs/heads/", "")
                \o "' of '" \o format(repo) \o "'")
    ELSE IF startswith(ref.sc.s, "refs/tags/")
    THEN Lit("Pushed commit(s) to tag '"
                \o replace(ref.sc.s, "refs/tags/", "")
                \o "' of '" \o format(repo) \o "'")
    ELSE Lit("Pushed commit(s) to '" \o ref.sc.s \o "' of '" \o format(repo)
                \o "'")

_handle_push_event(event) ==
    Try(<<repo_name(event),
          dot_get(payload(event), "ref", Lit("unknown_ref"))>>,
        Pushed(repo_name(event),
               dot_get(payload(event), "ref", Lit("unknown_ref"))))

\* payload.get("ref", "unknown_ref").removeprefix("refs/heads/")
\*                                  .removeprefix("refs/tags/")
Unprefixed(ref) ==
    IF ref.t = "raise" THEN ref
    ELSE IF ~IsStr(ref) THEN Raise("AttributeError")
    ELSE Lit(removeprefix(removeprefix(ref.sc.s, "refs/heads/"),
                          "refs/tags/"))

_handle_delete_event(event) ==
    Try(<<repo_name(event),
          Unprefixed(dot_get(payload(event), "ref", Lit("unknown_ref"))),
          dot_get(payload(event), "ref_type", Lit("unknown_ref_type"))>>,
        Lit("Deleted "
              \o format(dot_get(payload(event), "ref_type",
                                Lit("unknown_ref_type")))
              \o " '"
              \o format(Unprefixed(dot_get(payload(event), "ref",
                                           Lit("unknown_ref"))))
              \o "' from '" \o format(repo_name(event)) \o "'"))

\* event.get("payload", {}).get("forkee", {}).get("full_name")
forkee(event) ==
    dot_get(dot_get(payload(event), "forkee", Dict(<<>>)), "full_name", None)

_handle_fork_event(event) ==
    Try(<<repo_name(event), forkee(event)>>,
        IF Truthy(forkee(event))
        THEN Lit("Forked '" \o format(repo_name(event)) \o "' to '"
                    \o format(forkee(event)) \o "'")
        ELSE Lit("Forked the repository '" \o format(repo_name(event))
                    \o "'"))

_handle_watch_event(event) ==
    Try(<<repo_name(event)>>,
        Lit("Starred the repository '" \o format(repo_name(event)) \o "'"))

\* payload.get("issue", {})
issue(event) == dot_get(payload(event), "issue", Dict(<<>>))

\* assignee_data.get("login", "unknown_assignee") if assignee_data
\*     else "unknown_assignee"
assignee(assignee_data) ==
    IF assignee_data.t = "raise" THEN assignee_data
    ELSE IF Truthy(assignee_data)
    THEN dot_get(assignee_data, "login", Lit("unknown_assignee"))
    ELSE Lit("unknown_assignee")

\* labels[0].get("name", "unknown_label") if labels else "unknown_label"
label(labels) ==
    IF labels.t = "raise" THEN labels
    ELSE IF Truthy(labels)
    THEN dot_get(first_of(labels), "name", Lit("unknown_label"))
    ELSE Lit("unknown_label")

OneActions ==
    {"opened", "edited", "deleted", "closed", "reopened", "transferred",
     "pinned", "unpinned", "locked", "unlocked"}

\* the return statements of _handle_issues_event
IssueLine(repo, action, issue_number, user, who, what) ==
    IF IsStr(action) /\ action.sc.s \in OneActions
    THEN Lit("Issue #" \o format(issue_number) \o " was " \o format(action)
                \o " by " \o format(user) \o " in " \o format(repo))
    ELSE IF action = Lit("assigned")
    THEN Lit("Issue #" \o format(issue_number) \o " was " \o format(action)
                \o " to " \o format(who) \o " by " \o format(user) \o " in "
                \o format(repo))
    ELSE IF action = Lit("unassigned")
    THEN Lit("Issue #" \o format(issue_number) \o " was " \o format(action)
                \o " from " \o format(who) \o " by " \o format(user)
                \o " in " \o format(repo))
    ELSE IF action \in {Lit("labeled"), Lit("unlabeled")}
    THEN Lit("Issue #" \o format(issue_number) \o " was " \o format(action)
                \o " " \o format(what) \o " by " \o format(user) \o " in "
                \o format(repo))
    ELSE Lit("Performed an action " \o format(action) \o " on issue "
                \o format(issue_number) \o " of repo " \o format(repo))

_handle_issues_event(event) ==
    Try(<<repo_name(event),
          dot_get(payload(event), "action", Lit("performed an action")),
          dot_get(issue(event), "number", Lit("unknown_issue")),
          dot_get(dot_get(event, "actor", Dict(<<>>)), "login",
                  Lit("unknown_user")),
          assignee(dot_get(issue(event), "assignee", None)),
          label(dot_get(issue(event), "labels", List(<<>>)))>>,
        IssueLine(repo_name(event),
               dot_get(payload(event), "action", Lit("performed an action")),
               dot_get(issue(event), "number", Lit("unknown_issue")),
               dot_get(dot_get(event, "actor", Dict(<<>>)), "login",
                       Lit("unknown_user")),
               assignee(dot_get(issue(event), "assignee", None)),
               label(dot_get(issue(event), "labels", List(<<>>)))))

\* payload.get("pull_request", {})
pull_request(event) == dot_get(payload(event), "pull_request", Dict(<<>>))

_handle_pull_request_event(event) ==
    Try(<<repo_name(event),
          dot_get(payload(event), "action", Lit("performed an action")),
          dot_get(payload(event), "number", Lit("unknown_pr")),
          dot_get(pull_request(event), "title", Lit("unknown_title")),
          dot_get(dot_get(pull_request(event), "user", Dict(<<>>)), "login",
                  Lit("unknown_user"))>>,
        Lit("PR #"
              \o format(dot_get(payload(event), "number", Lit("unknown_pr")))
              \o " '"
              \o format(dot_get(pull_request(event), "title",
                                Lit("unknown_title")))
              \o "' was "
              \o format(dot_get(payload(event), "action",
                                Lit("performed an action")))
              \o " in " \o format(repo_name(event)) \o " by "
              \o format(dot_get(dot_get(pull_request(event), "user",
                                        Dict(<<>>)),
                                "login", Lit("unknown_user")))))

\* handle_output from self.HANDLERS.get(event_type) on: a list or a dict
\* cannot be hashed, so it is no key to look up (TypeError); every handler
\* named in HANDLERS is a method, so line 328 is never reached
Selected(event, event_type) ==
    IF event_type.t \in {"list", "dict"} THEN Raise("TypeError")
    ELSE IF ~IsStr(event_type) \/ event_type.sc.s \notin HANDLERS
    THEN Lit("Unhandled event type: " \o format(event_type))
    ELSE IF event_type.sc.s = "CreateEvent" THEN _handle_create_event(event)
    ELSE IF event_type.sc.s = "PushEvent" THEN _handle_push_event(event)
    ELSE IF event_type.sc.s = "DeleteEvent" THEN _handle_delete_event(event)
    ELSE IF event_type.sc.s = "ForkEvent" THEN _handle_fork_event(event)
    ELSE IF event_type.sc.s = "WatchEvent" THEN _handle_watch_event(event)
    ELSE IF event_type.sc.s = "IssuesEvent" THEN _handle_issues_event(event)
    ELSE _handle_pull_request_event(event)

handle_output(event) ==
    IF event.t # "dict" THEN Raise("AttributeError")
    ELSE Selected(event, get(event, "type", None))

\* an event whose members are scalars, as a record of values
Nested(event) ==
    Dict([i \in 1..Len(event.pairs) |->
            Pair(event.pairs[i].key, Scalar(event.pairs[i].val))])

(***************************************************************************)
(* CLIHandler                                                              *)
(***************************************************************************)
\* the result of parse_mandatory_cli_args: the two values returned (None:
\* user "" and number 0), the lines printed and the messages logged
PM(user, number, out, log) ==
    [user |-> user, number |-> number, out |-> out, log |-> log]

\* Counted, but without the upper limit
Counted_NoLimit(user, number_of_events) ==
    IF number_of_events <= 0
    THEN PM("", 0, <<>>, <<"Number of events must be greater than zero">>)
    ELSE PM(user, number_of_events, <<>>, <<>>)

\* the checks of int(sys.argv[2])
Counted(user, number_of_events) ==
    IF number_of_events <= 0
    THEN PM("", 0, <<>>, <<"Number of events must be greater than zero">>)
    ELSE IF number_of_events > GITHUB_DEFAULT_EVENTS_PER_PAGE
    THEN PM("", 0, <<>>, <<"Number of events cannot exceed 30">>)
    ELSE PM(user, number_of_events, <<>>, <<>>)

parse_mandatory_cli_args(a) ==
    IF Len(a) < MIN_CLI_ARGS_COUNT
    THEN PM("", 0,
            <<"Usage: python github_user_activity.py <github-username> <number of events> [event-type(optional)]">>,
            <<>>)
    ELSE IF ~CanInt(a[3])
    THEN PM("", 0, <<>>, <<"Please enter a valid integer for number of events.">>)
    ELSE Counted(a[2], int(a[3]))

\* the result of parse_optional_cli_args: the event type ("": None) and
\* the lines printed (the order in which the set is printed is not modelled)
parse_optional_cli_args(a, supported_events) ==
    IF Len(a) = CLI_ARGS_COUNT_WITH_FILTER
    THEN IF a[4] \in supported_events
         THEN [ret |-> a[4], out |-> <<>>]
         ELSE [ret |-> "",
               out |-> <<"Invalid event type specified.",
                         "Supporting event types are:  {...}">>]
    ELSE [ret |-> "", out |-> <<>>]

(***************************************************************************)
(* What the network and the user do when fetch_activity is called.        *)
(***************************************************************************)
\* the environments in which a field that is not looked at has one value:
\* the second answer, the token and the prompt matter after a 401 or 403
\* only, the prompt only when GITHUB_TOKEN is not set
Environments ==
    {e \in [first : Answers, second : Answers, env_token : {"", "ghp_1"},
            prompt : Prompts, write_fails : BOOLEAN] :
        /\ e.first.code \notin {401, 403}
              => e.second = Ok(<<>>) /\ e.env_token = ""
        /\ (e.first.code \notin {401, 403} \/ e.env_token # "")
              => e.prompt = Typed("")
        /\ (e.first.code \in {401, 403} /\ e.env_token = ""
              /\ e.prompt # Typed("secret"))
              => e.second = Ok(<<>>)}

(***************************************************************************)
(* main(): one invocation with command line a.                             *)
(***************************************************************************)
Separator == "----------------------------------------"

\* the loop over events from item i on: acc is display_strings; an item
\* that is no dict has no .get (AttributeError)
RECURSIVE Collect(_, _, _, _, _)

\* Appended, but the loop does not stop at number_of_events
Appended_NoBreak(items, i, requested_event_type, number_of_events, acc, d) ==
    IF d.t = "raise" THEN [out |-> acc, exc |-> d.sc.s]
    ELSE Collect(items, i + 1, requested_event_type, number_of_events,
                 Append(acc, d.sc.s))

\* the loop once handle_output gave d for item i
Appended(items, i, requested_event_type, number_of_events, acc, d) ==
    IF d.t = "raise" THEN [out |-> acc, exc |-> d.sc.s]
    ELSE IF Len(acc) + 1 = number_of_events
    THEN [out |-> Append(acc, d.sc.s), exc |-> "none"]
    ELSE Collect(items, i + 1, requested_event_type, number_of_events,
                 Append(acc, d.sc.s))

Collect(items, i, requested_event_type, number_of_events, acc) ==
    IF i > Len(items) THEN [out |-> acc, exc |-> "none"]
    ELSE IF items[i].t # "dict" THEN [out |-> acc, exc |-> "AttributeError"]
    ELSE IF requested_event_type # ""
            /\ TypeOf(items[i]) # PyStr(requested_event_type)
    THEN Collect(items, i + 1, requested_event_type, number_of_events, acc)
    ELSE Appended(items, i, requested_event_type, number_of_events, acc,
                  handle_output(Nested(items[i])))

\* a call of check_cache_usability that gave r
Called(r) == [called |-> TRUE, ret |-> r.ret, exc |-> r.exc]

\* the state an invocation ends in
Finished(a, e, c, g, f, evs, w, ex, out, log) ==
    /\ viewer' = "ended"
    /\ sys_argv' = a
    /\ environment' = IF f.called THEN e ELSE NotCalled
    /\ cache_was' = cache
    /\ cache' = c
    /\ cached' = g
    /\ fetched' = f
    /\ events' = evs
    /\ cache_write' = w
    /\ raised' = ex
    /\ printed' = out
    /\ logged' = log
    /\ last_fetch' = IF f.called /\ f.exc = "none" /\ Truthy(f.ret)
                     THEN [called |-> TRUE, at |-> utc, events |-> f.ret]
                     ELSE last_fetch
    /\ UNCHANGED utc
    /\ UNCHANGED <<task_vars, handler_vars, race_vars>>

\* main() once the loop gave l: the lines between the two separators
Output(a, e, c, g, f, evs, w, log, o, l) ==
    IF l.exc # "none"
    THEN Finished(a, e, c, g, f, evs, w, l.exc, o.out \o <<Separator>>, log)
    ELSE Finished(a, e, c, g, f, evs, w, "none",
                  o.out \o <<Separator>>
                        \o (IF l.out = <<>> THEN <<"No events to display.">>
                            ELSE l.out)
                        \o <<Separator>>,
                  log)

\* main() from `if events:` (line 489) on, o the result of
\* parse_optional_cli_args
Filtered(a, e, m, c, g, f, evs, w, log, o) ==
    Output(a, e, c, g, f, evs, w, log, o,
           Collect(evs.elems, 1, o.ret, m.number, <<>>))

Display(a, e, m, c, g, f, evs, w, log) ==
    IF ~Truthy(evs) THEN Finished(a, e, c, g, f, evs, w, "none", <<>>, log)
    ELSE Filtered(a, e, m, c, g, f, evs, w, log,
                  parse_optional_cli_args(a, get_supported_events))

\* main() after fetch_activity gave f: what was fetched is stored when it
\* is not empty
Fetched(a, e, m, g, f) ==
    IF f.exc # "none"
    THEN Finished(a, e, cache, Called(g), f, Unbound, NotCalled, f.exc, <<>>,
                  g.log \o f.log)
    ELSE IF Truthy(f.ret)
    THEN Display(a, e, m,
                 write_cache(cache,
                             Envelope(f.timestamp, CACHE_TTL_SECONDS, f.ret),
                             e.write_fails),
                 Called(g), f, f.ret,
                 [called |-> TRUE, failed |-> e.write_fails],
                 g.log \o f.log
                       \o (IF e.write_fails
                           THEN <<"Failed to write cache file">> ELSE <<>>))
    ELSE Display(a, e, m, cache, Called(g), f, f.ret, NotCalled,
                 g.log \o f.log)

\* main() after check_cache_usability gave g: fetch_activity is called when
\* the cache gave nothing, and meets the network and the user of some
\* environment e
Gated(a, m, g) ==
    IF g.exc # "none"
    THEN Finished(a, NotCalled, cache, Called(g), NotCalled, Unbound,
                  NotCalled, g.exc, <<>>, g.log)
    ELSE IF Truthy(g.ret)
    THEN Display(a, NotCalled, m, cache, Called(g), NotCalled, g.ret,
                 NotCalled, g.log)
    ELSE \E e \in Environments : Fetched(a, e, m, g, fetch_activity(e, utc))

\* main() after parse_mandatory_cli_args gave m
Accepted(a, m) ==
    IF m.user = "" \/ m.number = 0
    THEN Finished(a, NotCalled, cache, NotCalled, NotCalled, Unbound,
                  NotCalled, "none", m.out, m.log)
    ELSE Gated(a, m, check_cache_usability(cache, utc))

main(a) == Accepted(a, parse_mandatory_cli_args(a))

(***************************************************************************)
(* Command lines of the activity viewer.                                   *)
(***************************************************************************)
Script == "github_user_activity.py"

ActivityArgv ==
    {<<Script, "octocat", n>> : n \in {"1", "2", "30", "0", "31", "-1", "x"}}
        \cup {<<Script, "octocat", "2", type>> :
                 type \in {"PushEvent", "IssuesEvent", "Bogus"}}
        \cup {<<Script, "octocat", "1", "PushEvent">>}
        \cup {<<Script>>, <<Script, "octocat">>, <<Script, "", "2">>}

\* one invocation of the program
Activity ==
    /\ viewer = "idle"
    /\ \E a \in ActivityArgv : main(a)

\* the process exits: its memory and its output are gone
Leave ==
    /\ viewer = "ended"
    /\ viewer' = "idle"
    /\ sys_argv' = <<>>
    /\ environment' = NotCalled
    /\ cache_was' = cache
    /\ cached' = NotCalled
    /\ fetched' = NotCalled
    /\ events' = Unbound
    /\ cache_write' = NotCalled
    /\ raised' = "none"
    /\ printed' = <<>>
    /\ logged' = <<>>
    /\ UNCHANGED <<cache, utc, last_fetch>>
    /\ UNCHANGED <<task_vars, handler_vars, race_vars>>

\* time passes between two invocations
Elapse ==
    /\ viewer = "idle"
    /\ \E t \in Instants : t > utc /\ utc' = t
    /\ UNCHANGED <<viewer, cache, sys_argv, environment, cache_was, cached,
                   fetched, events, cache_write, raised, printed, logged,
                   last_fetch>>
    /\ UNCHANGED <<task_vars, handler_vars, race_vars>>

ActivityNext ==
    \/ Activity
    \/ Leave
    \/ Elapse

\* the activity viewer of a user for whom there is no cache file yet
SpecActivity == Init /\ [][ActivityNext]_vars

(***************************************************************************)
(* The same program started on a cache file that something else wrote.     *)
(***************************************************************************)
Stamp(s) == Scalar(PyStr(s))

Good ==
    Envelope(Stamp(Zulu(0)), CACHE_TTL_SECONDS,
             List(<<Event("WatchEvent"), Event("PushEvent")>>))

InitialCaches ==
    {Missing, Undecodable,
     Text(<<>>),
     Text(<<P("{"), Tok("s", "timestamp")>>),
     Text(json_dump(List(<<>>))),
     Text(json_dump(List(<<Event("PushEvent")>>))),
     Text(json_dump(Scalar(PyInt(1)))),
     Text(json_dump(None)),
     Text(dump_cache(Dict(<<>>))),
     Text(dump_cache(Good)),
     Text(dump_cache(Put(Good, "timestamp", Stamp(isoformat(1))))),
     Text(dump_cache(Put(Good, "events", List(<<>>)))),
     Text(dump_cache(Put(Good, "ttl", Scalar(PyInt(1))))),
     Text(dump_cache(Put(Good, "ttl", Scalar(PyInt(0))))),
     Text(dump_cache(Without(Good, "ttl"))),
     Text(dump_cache(Without(Good, "timestamp"))),
     Text(dump_cache(Without(Good, "events"))),
     Text(dump_cache(Put(Good, "events", Dict(<<>>)))),
     Text(dump_cache(Put(Good, "events", Stamp("none")))),
     Text(dump_cache(Put(Good, "timestamp", None))),
     Text(dump_cache(Put(Good, "timestamp", Stamp("")))),
     Text(dump_cache(Put(Good, "timestamp", Scalar(PyInt(1))))),
     Text(dump_cache(Put(Good, "timestamp", Stamp("yesterday")))),
     Text(dump_cache(Put(Good, "timestamp", Stamp(Naive(0))))),
     Text(dump_cache(Put(Good, "ttl", Stamp("900")))),
     Text(dump_cache(Put(Good, "ttl", None)))}

InitCache ==
    \E c \in InitialCaches : Fresh(Missing) /\ Quiet(c) /\ Unasked /\ Alone

SpecCache == InitCache /\ [][ActivityNext]_vars

(***************************************************************************)
(* handle_output on its own: one call on an event record of the shapes the *)
(* API sends, with members absent, null or empty.                          *)
(***************************************************************************)
Absent == Unbound

\* the member key: v of a dict, none when v is absent
Opt(key, v) == IF v = Absent THEN <<>> ELSE <<Pair(key, v)>>

\* a member that is a dict or a list: absent, null or one of S
Whole(S) == {Absent, None} \cup S

\* a member that is a str: absent, null, empty or one of strs
Leaf(strs) == {Absent, None, Lit("")} \cup {Lit(s) : s \in strs}

Logins(name) == Whole({Dict(Opt("login", x)) : x \in {Absent, None, Lit(name)}})

Repos == Whole({Dict(Opt("name", n)) : n \in {Absent, None, Lit("octocat/hello")}})

Refs ==
    Leaf({"main", "refs/heads/main", "refs/tags/v1", "refs/heads/",
          "refs/heads", "refs/heads/feature/refs/heads/x",
          "refs/tags/refs/tags/v1", "refs/heads/refs/tags/v1",
          "refs/tags/a/refs/heads/b", "heads/refs/heads/main"})

CreatePayloads ==
    Whole({Dict(Opt("ref", ref) \o Opt("ref_type", ref_type)) :
             ref \in {Absent, None, Lit("main")},
             ref_type \in Leaf({"repository", "tag", "branch", "commit"})})

PushPayloads == Whole({Dict(Opt("ref", ref)) : ref \in Refs})

DeletePayloads ==
    Whole({Dict(Opt("ref", ref) \o Opt("ref_type", ref_type)) :
             ref \in {Absent, None, Lit("main"), Lit("refs/heads/main"),
                      Lit("refs/tags/v1"), Lit("refs/heads/refs/tags/v1")},
             ref_type \in {Absent, None, Lit("branch"), Lit("tag")}})

ForkPayloads ==
    Whole({Dict(Opt("forkee", f)) :
             f \in Whole({Dict(Opt("full_name", n)) : n \in Leaf({"me/hello"})})})

LabelLists ==
    {List(<<>>), List(<<None>>), List(<<Dict(<<>>)>>),
     List(<<Dict(<<Pair("name", None)>>)>>),
     List(<<Dict(<<Pair("name", Lit("bug"))>>)>>),
     List(<<Dict(<<Pair("name", Lit("bug"))>>),
            Dict(<<Pair("name", Lit("wontfix"))>>)>>)}

IssueDicts ==
    Whole({Dict(Opt("number", n) \o Opt("assignee", a) \o Opt("labels", l)) :
             n \in {Absent, None, Scalar(PyInt(7))},
             a \in Logins("bob"),
             l \in Whole(LabelLists)})

IssuesPayloads ==
    Whole({Dict(Opt("action", action) \o Opt("issue", i)) :
             action \in Leaf({"opened", "assigned", "unassigned", "labeled",
                              "unlabeled", "commented"}),
             i \in IssueDicts})

PullRequests ==
    Whole({Dict(Opt("title", title) \o Opt("user", user)) :
             title \in {Absent, None, Lit("Fix")}, user \in Logins("carol")})

PullRequestPayloads ==
    Whole({Dict(Opt("action", action) \o Opt("number", n)
                    \o Opt("pull_request", pr)) :
             action \in {Absent, None, Lit("opened")},
             n \in {Absent, None, Scalar(PyInt(7))},
             pr \in PullRequests})

\* the values of "type" that name no handler
OtherTypes ==
    {Absent, None, Lit(""), Lit("FooEvent"), Lit("pushevent"),
     Scalar(PyInt(1)), List(<<>>), Dict(<<>>)}

EventOf(type, repo, p, actor) ==
    Dict(Opt("type", type) \o Opt("repo", repo) \o Opt("payload", p)
            \o Opt("actor", actor))

EventRecords ==
    {EventOf(Lit("CreateEvent"), repo, p, Absent) :
        repo \in Repos, p \in CreatePayloads}
      \cup {EventOf(Lit("PushEvent"), repo, p, Absent) :
               repo \in Repos, p \in PushPayloads}
      \cup {EventOf(Lit("DeleteEvent"), repo, p, Absent) :
               repo \in Repos, p \in DeletePayloads}
      \cup {EventOf(Lit("ForkEvent"), repo, p, Absent) :
               repo \in Repos, p \in ForkPayloads}
      \cup {EventOf(Lit("WatchEvent"), repo, p, Absent) :
               repo \in Repos, p \in {Absent, Dict(<<>>)}}
      \cup {EventOf(Lit("IssuesEvent"), repo, p, actor) :
               repo \in {Absent, Dict(<<Pair("name", Lit("octocat/hello"))>>)},
               p \in IssuesPayloads, actor \in Logins("alice")}
      \cup {EventOf(Lit("PullRequestEvent"), repo, p, Absent) :
               repo \in Repos, p \in PullRequestPayloads}
      \cup {EventOf(type, repo, Absent, Absent) :
               type \in OtherTypes,
               repo \in {Absent, Dict(<<Pair("name", Lit("octocat/hello"))>>)}}

\* handle_output is called on an event record
Describe ==
    /\ record = Unbound
    /\ \E ev \in EventRecords :
          /\ record' = ev
          /\ described' = handle_output(ev)
    /\ UNCHANGED <<task_vars, activity_vars, race_vars>>

\* the caller is done with what the call returned
Forget ==
    /\ record # Unbound
    /\ record' = Unbound
    /\ described' = Unbound
    /\ UNCHANGED <<task_vars, activity_vars, race_vars>>

HandlerNext ==
    \/ Describe
    \/ Forget

SpecHandler == Init /\ [][HandlerNext]_vars

(***************************************************************************)
(* Two processes of the task tracker that run at the same time.  Each runs *)
(* __main__ once; what a process does in its own memory is one step with   *)
(* the read before it, and every call that touches task_list.json is a     *)
(* step of its own: Path.exists(), open() for reading with json.load,      *)
(* open() for writing, which empties the file, and the end of the with     *)
(* block, which writes what json.dump buffered at the start of the file.   *)
(* The length of a file is counted in tokens.                              *)
(***************************************************************************)
Processes == {1, 2}

RaceArgv ==
    {<<Prog, "add", "a">>, <<Prog, "add", "b">>, <<Prog, "delete", "1">>,
     <<Prog, "mark-done", "1">>, <<Prog, "list">>}

RaceFiles ==
    {Missing,
     Text(json_dump(List(<<>>))),
     Text(json_dump(List(<<Stored(1, "a", "todo")>>))),
     Text(json_dump(List(<<Stored(1, "a", "todo"), Stored(2, "b", "todo")>>)))}

InitRace ==
    \E f \in RaceFiles : Fresh(f) /\ Quiet(Missing) /\ Unasked /\ Alone

\* the file after toks were written at its start: what lay beyond them
\* stays
Over(f, toks) == Text(toks \o SubSeq(f.toks, Len(toks) + 1, Len(f.toks)))

\* process p goes on to statement at
Moved(p, at, a, ts, ok) ==
    race' = [race EXCEPT ![p] = [at |-> at, argv |-> a, tasks |-> ts,
                                 operation_success |-> ok]]

\* nothing but the file and the two processes changes
Elsewhere ==
    /\ UNCHANGED <<pc, now, argv, before, loaded, tasks, operation_success,
                   exc, stdout, wrote, issued>>
    /\ UNCHANGED <<activity_vars, handler_vars>>

\* __main__ of process p after the dispatch gave h: a mutating command
\* that succeeded goes on to write_tasks_to_json
Commanded(p, a, h) ==
    IF h.exc # "none" THEN Moved(p, "done", a, h.tasks, FALSE)
    ELSE IF a[2] \in MutatingCommands /\ h.ret
    THEN Moved(p, "write", a, h.tasks, TRUE)
    ELSE Moved(p, "done", a, h.tasks, h.ret)

\* __main__ of process p after read_tasks_from_json gave rd
Started(p, a, rd) ==
    IF rd.exc # "none" THEN Moved(p, "done", a, rd.val, FALSE)
    ELSE Commanded(p, a, Dispatch(a, rd.val))

\* Path(TASK_FILE).exists() in a process started with some command line
Probe ==
    \E p \in Processes :
        /\ race[p].at = "start"
        /\ \E a \in RaceArgv :
              Moved(p, IF file.kind = "missing" THEN "create" ELSE "read", a,
                    Unbound, FALSE)
        /\ UNCHANGED <<file, writers>>
        /\ Elsewhere

\* open(TASK_FILE, "r") and json.load, then the command in memory
ReadFile ==
    \E p \in Processes :
        /\ race[p].at = "read"
        /\ Started(p, race[p].argv, read_tasks_from_json(file))
        /\ UNCHANGED <<file, writers>>
        /\ Elsewhere

\* open(TASK_FILE, "w") of read_tasks_from_json
CreateOpen ==
    \E p \in Processes :
        /\ race[p].at = "create"
        /\ file' = Text(<<>>)
        /\ Moved(p, "created", race[p].argv, Unbound, FALSE)
        /\ UNCHANGED writers
        /\ Elsewhere

\* the end of that with block: [] is written; then the command in memory
CreateClose ==
    \E p \in Processes :
        /\ race[p].at = "created"
        /\ file' = Over(file, json_dump(List(<<>>)))
        /\ Commanded(p, race[p].argv, Dispatch(race[p].argv, List(<<>>)))
        /\ UNCHANGED writers
        /\ Elsewhere

\* open(TASK_FILE, "w") of write_tasks_to_json
WriteOpen ==
    \E p \in Processes :
        /\ race[p].at = "write"
        /\ file' = Text(<<>>)
        /\ Moved(p, "dump", race[p].argv, race[p].tasks, TRUE)
        /\ UNCHANGED writers
        /\ Elsewhere

\* the end of that with block: the tasks of the process are written
WriteClose ==
    \E p \in Processes :
        /\ race[p].at = "dump"
        /\ file' = Over(file, write_tasks_to_json(race[p].tasks).toks)
        /\ Moved(p, "done", race[p].argv, race[p].tasks, TRUE)
        /\ writers' = Append(writers, p)
        /\ Elsewhere

RaceNext ==
    \/ Probe
    \/ ReadFile
    \/ CreateOpen
    \/ CreateClose
    \/ WriteOpen
    \/ WriteClose

SpecRace == InitRace /\ [][RaceNext]_vars

(***************************************************************************)
(* Vocabulary of the properties.                                           *)
(***************************************************************************)
\* __main__ has run to its end (or to an unhandled exception)
Ran == pc = "ended"

\* the sub-command of the invocation
Command == IF Len(argv) >= 2 THEN argv[2] ELSE ""

IdCommands == {"delete", "update", "mark-in-progress", "mark-done", "mark-todo"}
Statuses == {"todo", "in-progress", "done"}

\* the invocation is delete, update or mark-* with an id and, for update, a
\* description
CallWithId ==
    /\ Ran
    /\ Command \in IdCommands
    /\ Len(argv) = (IF Command = "update" THEN 4 ELSE 3)
    /\ CanInt(argv[3])
    /\ Command = "update" => argv[4] # ""

\* v is a list of records that all have an id
Records(v) ==
    /\ v.t = "list"
    /\ \A i \in 1..Len(v.elems) : v.elems[i].t = "dict" /\ "id" \in Keys(v.elems[i])

\* v is a list of tasks: records with the five fields and an integer id
TaskRecords(v) ==
    /\ Records(v)
    /\ \A i \in 1..Len(v.elems) :
          /\ Keys(v.elems[i]) = {"id", "description", "status", "createdAt",
                                 "updatedAt"}
          /\ Get(v.elems[i], "id").k = "int"

\* the positions of v that hold a task with id n
Matching(v, n) == {i \in 1..Len(v.elems) : Get(v.elems[i], "id") = PyInt(n)}

Least(S) == CHOOSE x \in S : \A y \in S : x <= y
Largest(S) == CHOOSE x \in S : \A y \in S : y <= x

\* the value task_list.json holds
Holds(f) == json_load(f.toks).val
Decodes(f) == f.kind = "text" /\ json_load(f.toks).ok

\* the file as the start of an invocation leaves it: a missing file is
\* created holding []
Opened(f) == IF f.kind = "missing" THEN Text(<<P("["), P("]")>>) ELSE f

\* what an invocation prints before it looks at its command: the warning
\* about a file that is no JSON
Warned ==
    IF before.kind = "text" /\ ~Decodes(before)
    THEN <<"Invalid JSON exist. Overwriting task_list.json with empty task list.">>
    ELSE <<>>

\* d1 and d2 have the same keys and agree on every key outside keys
SameExcept(d1, d2, keys) ==
    /\ Keys(d1) \ keys = Keys(d2) \ keys
    /\ \A key \in Keys(d1) \ keys : Get(d1, key) = Get(d2, key)

(***************************************************************************)
(* C1.  Task ids are unique: starting from an empty store, after any       *)
(* sequence of add, update, delete and mark commands no two tasks of the   *)
(* list in memory, and no two tasks of the list in the file, have the same *)
(* id.                                                                     *)
(***************************************************************************)
UniqueIds(v) ==
    /\ Records(v)
    /\ \A i, j \in 1..Len(v.elems) :
          i # j => Get(v.elems[i], "id") # Get(v.elems[j], "id")

C1_UniqueIds ==
    /\ Ran => UniqueIds(tasks)
    /\ file.kind = "text" => Decodes(file) /\ UniqueIds(Holds(file))

\* an add after the task with id 1 was deleted: the list holds ids 2 and 3
C1_Witness ==
    /\ Ran /\ Command = "add" /\ operation_success
    /\ Len(tasks.elems) = 2
    /\ Get(tasks.elems[1], "id") = PyInt(2)
    /\ Get(tasks.elems[2], "id") = PyInt(3)

(***************************************************************************)
(* C2.  The claim: the id an add assigns differs from every id an earlier  *)
(* add assigned, also from the ids of tasks deleted since.  The code       *)
(* assigns max + 1 over the tasks that remain, so deleting the task with   *)
(* the largest id frees that id: add, delete 1, add assigns 1 twice.       *)
(***************************************************************************)
C2_NeverReused ==
    (Ran /\ Command = "add" /\ operation_success)
        => Get(tasks.elems[Len(tasks.elems)], "id").n \notin issued

(***************************************************************************)
(* C3.  A mutating command that succeeds writes the file, and the file     *)
(* then holds exactly the list in memory at the end of the invocation;     *)
(* every invocation starts from the list the file holds, and one that does *)
(* not succeed, or does not mutate, leaves an existing file as it is.      *)
(***************************************************************************)
C3_FileHoldsList ==
    /\ (Ran /\ Command \in IdCommands \cup {"add"} /\ operation_success)
          => wrote /\ Decodes(file) /\ Holds(file) = tasks
    /\ (Ran /\ Decodes(before) /\ Holds(before).t = "list")
          => loaded = Holds(before)
    /\ (Ran /\ ~(Command \in IdCommands \cup {"add"} /\ operation_success))
          => ~wrote /\ file = Opened(before)

\* a delete that leaves a task: the file holds the list without the deleted
\* task
C3_Witness ==
    /\ Ran /\ Command = "delete" /\ operation_success /\ wrote
    /\ TaskRecords(loaded)
    /\ Len(tasks.elems) = 1 /\ Len(loaded.elems) = 2
    /\ Holds(file) = tasks /\ Holds(before) = loaded

(***************************************************************************)
(* C4.  update, mark-* and delete called with an id that no task of the    *)
(* list has report not-found and leave the list as it was loaded (same     *)
(* tasks, same order, same fields), and the invocation does not write the  *)
(* file.                                                                   *)
(***************************************************************************)
C4_NotFoundNoEffect ==
    (CallWithId /\ Records(loaded) /\ Matching(loaded, int(argv[3])) = {})
        => /\ ~operation_success
           /\ exc = "none"
           /\ tasks = loaded
           /\ ~wrote
           /\ file = Opened(before)
           /\ stdout = Warned \o <<"Error: Task with ID"
                                     \o (IF Command = "delete" THEN " " ELSE ": ")
                                     \o argv[3] \o " not found.">>

\* mark-done of an id that none of the two stored tasks has
C4_Witness ==
    /\ CallWithId /\ Command = "mark-done"
    /\ Records(loaded) /\ Len(loaded.elems) = 2
    /\ Matching(loaded, int(argv[3])) = {}
    /\ ~operation_success

C6_DeleteRemovesFirst ==
    (/\ CallWithId /\ Command = "delete"
     /\ Records(loaded) /\ Matching(loaded, int(argv[3])) # {})
        => /\ operation_success
           /\ tasks.t = "list"
           /\ Len(tasks.elems) = Len(loaded.elems) - 1
           /\ \A j \in 1..Len(tasks.elems) :
                 tasks.elems[j] =
                     loaded.elems[IF j < Least(Matching(loaded, int(argv[3])))
                                  THEN j ELSE j + 1]

\* a delete of an id that two of three stored tasks have, the first and the
\* last
C6_Witness ==
    /\ CallWithId /\ Command = "delete" /\ operation_success
    /\ Records(loaded) /\ Len(loaded.elems) = 3
    /\ Matching(loaded, int(argv[3])) = {1, 3}

(***************************************************************************)
(* C7.  A successful update changes only the description and updatedAt of  *)
(* the first task with the id, a successful mark-* only its status and     *)
(* updatedAt; updatedAt becomes the current time; every other field of the *)
(* task, every other task, and the number and order of the tasks stay.     *)
(***************************************************************************)
\* the field a command sets, and the value it sets it to
Sets == IF Command = "update" THEN "description" ELSE "status"
SetTo ==
    IF Command = "update" THEN argv[4]
    ELSE IF Command = "mark-in-progress" THEN "in-progress"
    ELSE IF Command = "mark-done" THEN "done"
    ELSE "todo"

C7_UpdateTouchesOneTask ==
    (/\ CallWithId /\ Command # "delete"
     /\ Records(loaded) /\ Matching(loaded, int(argv[3])) # {})
        => /\ operation_success
           /\ tasks.t = "list"
           /\ Len(tasks.elems) = Len(loaded.elems)
           /\ \A j \in 1..Len(tasks.elems) :
                 IF j = Least(Matching(loaded, int(argv[3])))
                 THEN /\ SameExcept(tasks.elems[j], loaded.elems[j],
                                    {Sets, "updatedAt"})
                      /\ Get(tasks.elems[j], Sets) = PyStr(SetTo)
                      /\ Get(tasks.elems[j], "updatedAt") = PyStr(strftime(now))
                 ELSE tasks.elems[j] = loaded.elems[j]

\* an update, a second after the tasks were created, of an id that the
\* first and the last of three stored tasks have
C7_Witness ==
    /\ CallWithId /\ Command = "update" /\ operation_success
    /\ TaskRecords(loaded) /\ Len(loaded.elems) = 3
    /\ Matching(loaded, int(argv[3])) = {1, 3}
    /\ Get(tasks.elems[1], "createdAt") # Get(tasks.elems[1], "updatedAt")

(***************************************************************************)
(* C8.  A command line that is a user-input error (no or an unknown        *)
(* command, a wrong number of arguments, an id that is no integer, an      *)
(* empty description, an unknown status for list) is rejected: no task     *)
(* changes, nothing is written, a file that holds JSON stays as it is, a   *)
(* message is printed and no exception leaves the process.  (The command   *)
(* line is looked at once the file has been read.)                         *)
(***************************************************************************)
InputError(a) ==
    \/ Len(a) < 2
    \/ a[2] \notin IdCommands \cup {"add", "list"}
    \/ a[2] = "add" /\ (Len(a) # 3 \/ a[3] = "")
    \/ a[2] \in IdCommands \ {"update"} /\ (Len(a) # 3 \/ ~CanInt(a[3]))
    \/ a[2] = "update" /\ (Len(a) # 4 \/ ~CanInt(a[3]) \/ a[4] = "")
    \/ a[2] = "list" /\ (Len(a) \notin {2, 3} \/ (Len(a) = 3 /\ a[3] \notin Statuses))

C8_RejectedInputNoEffect ==
    (Ran /\ loaded # Unbound /\ InputError(argv))
        => /\ exc = "none"
           /\ ~operation_success
           /\ tasks = loaded
           /\ ~wrote
           /\ Decodes(before) => file = before
           /\ Len(stdout) > Len(Warned)

\* a delete whose id is no integer, on a store of two tasks
C8_Witness ==
    /\ Ran /\ Command = "delete" /\ Len(argv) = 3 /\ ~CanInt(argv[3])
    /\ TaskRecords(loaded) /\ Len(loaded.elems) = 2
    /\ stdout = <<"Error: Invalid ID format. ID should be an integer.">>

(***************************************************************************)
(* C9.  The claim: whatever the task file holds, every invocation ends     *)
(* with a message and without an unhandled exception.  The code catches    *)
(* JSONDecodeError when it reads and IndexError around the command only:   *)
(* add on a file that holds an object raises TypeError, and a search, an   *)
(* add or a list over a list with an element that has no id raises         *)
(* KeyError.                                                               *)
(***************************************************************************)
C9_NoUnhandledFault ==
    (Ran /\ before.kind = "text") => exc = "none" /\ stdout # <<>>

(***************************************************************************)
(* C10.  list with a status prints exactly the tasks with that status,     *)
(* each once and in stored order; list without one prints all tasks in     *)
(* stored order; it prints the no-tasks message and returns false exactly  *)
(* when no task is to be printed; it changes no task and writes nothing.   *)
(***************************************************************************)
\* the six lines that show a task
Shown(task) ==
    <<"ID : " \o ToString(Get(task, "id").n),
      "Description : " \o Get(task, "description").s,
      "Status : " \o Get(task, "status").s,
      "Created At : " \o Get(task, "createdAt").s,
      "Updated At : " \o Get(task, "updatedAt").s,
      "----------------------------------------">>

RECURSIVE AllShown(_)
AllShown(ts) == IF ts = <<>> THEN <<>> ELSE Shown(Head(ts)) \o AllShown(Tail(ts))

\* the tasks a list command is asked for
Asked ==
    IF Len(argv) = 2 THEN loaded.elems
    ELSE SelectSeq(loaded.elems, LAMBDA task : Get(task, "status") = PyStr(argv[3]))

C10_ListShowsMatching ==
    (/\ Ran /\ Command = "list" /\ TaskRecords(loaded)
     /\ Len(argv) = 2 \/ (Len(argv) = 3 /\ argv[3] \in Statuses))
        => /\ exc = "none"
           /\ tasks = loaded
           /\ ~wrote
           /\ file = Opened(before)
           /\ operation_success = (Asked # <<>>)
           /\ stdout = Warned \o
                 ( IF Asked # <<>> THEN AllShown(Asked)
                   ELSE IF Len(argv) = 2 THEN <<"No tasks found.">>
                   ELSE <<"No tasks found with status " \o argv[3]>> )

\* list done on three stored tasks of which the second only is done
C10_Witness ==
    /\ Ran /\ Command = "list" /\ Len(argv) = 3 /\ argv[3] = "done"
    /\ TaskRecords(loaded) /\ Len(loaded.elems) = 3
    /\ Asked = <<loaded.elems[2]>>
    /\ operation_success

(***************************************************************************)
(* C11.  Round trip of the task store: what read_tasks_from_json reads     *)
(* from the file that write_tasks_to_json wrote for a list is that list,   *)
(* element by element and field by field, in the same order; the read      *)
(* prints nothing, raises nothing and leaves the file as written.          *)
(***************************************************************************)
C11_RoundTrip ==
    (Ran /\ tasks.t = "list")
        => read_tasks_from_json(write_tasks_to_json(tasks))
               = RR(tasks, write_tasks_to_json(tasks), <<>>, "none")

\* a process wrote three tasks whose statuses differ, and one of them was
\* stamped a second after it was created
C11_Witness ==
    /\ Ran /\ wrote /\ TaskRecords(tasks) /\ Len(tasks.elems) = 3
    /\ file = write_tasks_to_json(tasks)
    /\ Cardinality({Get(tasks.elems[i], "status") : i \in 1..3}) = 3
    /\ \E i \in 1..3 :
          Get(tasks.elems[i], "createdAt") # Get(tasks.elems[i], "updatedAt")
    /\ read_tasks_from_json(file).val = tasks

(***************************************************************************)
(* Vocabulary of the properties of the activity viewer.                    *)
(***************************************************************************)
\* an invocation of the activity viewer has ended
Invoked == viewer = "ended"

\* the value a cache file holds, and its members
Envelopes(c) == load_cache(c.toks).val
Member(c, key) == Get(Envelopes(c), key)

\* the instants a time stamp of the model can denote
Denotes(n) == {Zulu(n), isoformat(n)}

\* cache file c holds a well-formed envelope: an object with a time stamp
\* that denotes an instant in UTC, an integer ttl and a list of events
WellFormed(c) ==
    /\ c.kind = "text"
    /\ load_cache(c.toks).ok
    /\ Envelopes(c).t = "dict"
    /\ {"timestamp", "ttl", "events"} \subseteq Keys(Envelopes(c))
    /\ Member(c, "timestamp").t = "scalar"
    /\ Member(c, "timestamp").sc.k = "str"
    /\ \E n \in Instants : Member(c, "timestamp").sc.s \in Denotes(n)
    /\ Member(c, "ttl").t = "scalar"
    /\ Member(c, "ttl").sc.k = "int"
    /\ Member(c, "events").t = "list"

\* the second a well-formed envelope was stamped at
StampedAt(c) ==
    CHOOSE n \in Instants : Member(c, "timestamp").sc.s \in Denotes(n)

\* the envelope the program stores at second n for events evs
Stored900(n, evs) ==
    Text(dump_cache(Envelope(Scalar(PyStr(Zulu(n))), 900, evs)))

\* the token an environment gives
TokenOf(e) == IF e.env_token # "" THEN e.env_token ELSE e.prompt.text

\* the first request of the invocation was answered with a 401 or 403
Challenged ==
    /\ Invoked /\ fetched.called
    /\ environment.first.kind = "HTTPError"
    /\ environment.first.code \in {401, 403}

(***************************************************************************)
(* C12.  Cache freshness: on a well-formed envelope check_cache_usability  *)
(* returns None exactly when more seconds than ttl lie between the time    *)
(* stamp and the current UTC time, and otherwise the stored events as they *)
(* are; with ttl 900 an envelope stamped now and one stamped 900 s ago are *)
(* usable and one stamped 901 s ago is not.                                *)
(***************************************************************************)
C12_CacheFreshness ==
    /\ (Invoked /\ cached.called /\ WellFormed(cache_was))
          => /\ cached.exc = "none"
             /\ cached.ret =
                   IF utc - StampedAt(cache_was) > Member(cache_was, "ttl").sc.n
                   THEN None
                   ELSE Member(cache_was, "events")
    /\ viewer = "idle" =>
          \A evs \in {List(b) : b \in Bodies} :
          /\ check_cache_usability(Stored900(utc, evs), utc).ret = evs
          /\ check_cache_usability(Stored900(0, evs), 900).ret = evs
          /\ check_cache_usability(Stored900(0, evs), 901).ret = None

\* an envelope with ttl 900 that was stamped exactly 900 s before it is
\* read, and whose events are returned
C12_Witness ==
    /\ Invoked /\ cached.called /\ WellFormed(cache_was)
    /\ Member(cache_was, "ttl").sc.n = 900
    /\ utc - StampedAt(cache_was) = 900
    /\ cached.ret = Member(cache_was, "events")
    /\ Len(cached.ret.elems) = 2

(***************************************************************************)
(* C13.  The claim: whatever the cache file holds, check_cache_usability   *)
(* returns None or a list of events and raises nothing.  The code calls    *)
(* .get on whatever json.load returned (AttributeError on a list, a number *)
(* or null), subtracts a naive datetime from an aware one and compares a   *)
(* number with a ttl that is no number (TypeError), and does not catch the *)
(* UnicodeDecodeError of a file that is not UTF-8.                         *)
(***************************************************************************)
C13_GateNeverRaises ==
    (Invoked /\ cached.called /\ cache_was.kind = "text")
        => /\ cached.exc = "none"
           /\ cached.ret = None \/ cached.ret.t = "list"

(***************************************************************************)
(* C14.  The claim: a request is sent only if check_cache_usability        *)
(* returned None; when it returned a list, no request is sent and the      *)
(* cache file is not rewritten.  The code tests `if not events`, so an     *)
(* empty list that the gate returned from a fresh envelope is fetched      *)
(* again like a miss.                                                      *)
(***************************************************************************)
C14_FetchOnlyOnMiss ==
    /\ (Invoked /\ fetched.called) => cached.called /\ cached.ret = None
    /\ (Invoked /\ cached.called /\ cached.exc = "none" /\ cached.ret.t = "list")
          => /\ ~fetched.called
             /\ ~cache_write.called
             /\ cache = cache_was

(***************************************************************************)
(* C15.  The claim: after every fetch in which a request returned a list   *)
(* of events, of whatever length, the cache file holds the envelope with   *)
(* the time of the fetch, ttl 900 and the events fetched; and a write that *)
(* fails does not end the invocation, which still prints the events.  The  *)
(* code stores under `if events`, so an empty list is not stored.          *)
(***************************************************************************)
C15_FetchStored ==
    /\ (Invoked /\ fetched.called /\ fetched.exc = "none"
           /\ fetched.timestamp # None /\ fetched.ret.t = "list"
           /\ ~environment.write_fails)
          => cache = Stored900(utc, fetched.ret)
    /\ (Invoked /\ cache_write.called /\ cache_write.failed)
          => /\ raised = "none"
             /\ events = fetched.ret
             /\ Len(printed) >= 3
             /\ cache = cache_was

(***************************************************************************)
(* C16.  fetch_activity sends one or two requests.  The first carries no   *)
(* Authorization header.  A second is sent exactly when the first was      *)
(* answered with 401 or 403 and a token was obtained; it carries           *)
(* Authorization: Bearer <token>; nothing follows it, whatever its answer. *)
(***************************************************************************)
C16_AtMostTwoRequests ==
    (Invoked /\ fetched.called)
        => /\ Len(fetched.requests) \in {1, 2}
           /\ \A i \in 1..Len(fetched.requests[1]) :
                 fetched.requests[1][i].key # "Authorization"
           /\ Len(fetched.requests) = 2
                 <=> (Challenged /\ TokenOf(environment) # "")
           /\ Len(fetched.requests) = 2
                 => fetched.requests[2] =
                       <<Pair("User-Agent", "github-user-activity-cli"),
                         Pair("Authorization",
                              "Bearer " \o TokenOf(environment))>>
           /\ fetched.token_read <=> Challenged

\* a retry with the token of the prompt that was answered with 401 again
C16_Witness ==
    /\ Challenged /\ Len(fetched.requests) = 2
    /\ environment.env_token = ""
    /\ environment.second = Http(401)
    /\ fetched.ret = None /\ fetched.exc = "none"

(***************************************************************************)
(* C17.  The claim: after a 401 or 403, whatever fails on the retry path   *)
(* (no token, or a second request that fails with an HTTP status, a        *)
(* transport error or an undecodable body), fetch_activity returns [] or   *)
(* None and raises nothing.  The retry runs inside the except clause of    *)
(* fetch_activity and catches HTTPError only: a URLError, a timeout or a   *)
(* JSONDecodeError of the second request leaves fetch_activity and main(). *)
(***************************************************************************)
C17_RetryNeverRaises ==
    (Challenged
        /\ (TokenOf(environment) = "" \/ environment.second.kind # "ok"))
        => /\ fetched.exc = "none"
           /\ raised = "none"
           /\ fetched.ret \in {None, List(<<>>)}

(***************************************************************************)
(* C18.  When the first request fails with 404, with another HTTP status   *)
(* than 401 and 403, or with a transport error, fetch_activity returns     *)
(* None after that one request: no token is read, nothing is sent again,   *)
(* the invocation writes no cache file and prints no events.               *)
(***************************************************************************)
C18_NoRetryOnOtherErrors ==
    (/\ Invoked /\ fetched.called
     /\ \/ environment.first.kind = "HTTPError"
              /\ environment.first.code \notin {401, 403}
        \/ environment.first.kind \in {"URLError", "TimeoutError"})
        => /\ fetched.ret = None
           /\ fetched.exc = "none"
           /\ raised = "none"
           /\ Len(fetched.requests) = 1
           /\ ~fetched.token_read
           /\ ~cache_write.called
           /\ cache = cache_was
           /\ printed = <<>>

\* a 404 for a user whose cache file holds an expired envelope
C18_Witness ==
    /\ Invoked /\ fetched.called
    /\ environment.first = Http(404)
    /\ WellFormed(cache_was)
    /\ Len(Member(cache_was, "events").elems) = 2
    /\ cache = cache_was
    /\ printed = <<>>

(***************************************************************************)
(* C19.  The claim: an event type that is not one of the seven supported   *)
(* ones is rejected: the invocation prints the invalid-event-type message  *)
(* and no events.  The code prints the message and goes on without a       *)
(* filter, so it prints events of every type.                              *)
(***************************************************************************)
C19_UnknownTypeRejected ==
    (/\ Invoked /\ raised = "none" /\ Truthy(events)
     /\ Len(sys_argv) = 4 /\ sys_argv[4] \notin HANDLERS)
        => printed = <<"Invalid event type specified.",
                       "Supporting event types are:  {...}">>

(***************************************************************************)
(* C20.  A count that is no integer, is <= 0 or is > 30, and a command     *)
(* line with fewer than two arguments, end the invocation before the cache *)
(* file is read, before any request and before any write of the cache      *)
(* file; no events are printed.                                            *)
(***************************************************************************)
\* the spellings of the counts 1..30
Counts ==
    UNION {{ToString(n), "0" \o ToString(n), "+" \o ToString(n)} :
              n \in 1..30}

C20_BadCountStopsEarly ==
    (Invoked /\ (Len(sys_argv) < 3 \/ sys_argv[3] \notin Counts))
        => /\ ~cached.called
           /\ ~fetched.called
           /\ ~cache_write.called
           /\ cache = cache_was
           /\ raised = "none"
           /\ events = Unbound
           /\ printed =
                 IF Len(sys_argv) < 3
                 THEN <<"Usage: python github_user_activity.py <github-username> <number of events> [event-type(optional)]">>
                 ELSE <<>>
           /\ Len(sys_argv) >= 3 => logged # <<>>

\* the count 31 for a user whose cache file holds a fresh envelope
C20_Witness ==
    /\ Invoked /\ Len(sys_argv) = 3 /\ sys_argv[3] = "31"
    /\ WellFormed(cache_was)
    /\ utc - StampedAt(cache_was) <= Member(cache_was, "ttl").sc.n
    /\ Len(Member(cache_was, "events").elems) = 2
    /\ ~cached.called /\ printed = <<>>

(***************************************************************************)
(* Vocabulary of the properties of the event formatter.                    *)
(***************************************************************************)
\* handle_output was called on a record of type type
Described(type) == record # Unbound /\ get(record, "type", None) = Lit(type)

\* the member of v at the end of path; Absent when a dict on the way does
\* not have the key (or is no dict)
RECURSIVE At(_, _)
At(v, path) ==
    IF path = <<>> THEN v
    ELSE IF v.t # "dict" \/ Head(path) \notin Keys(v) THEN Absent
    ELSE At(Get(v, Head(path)), Tail(path))

\* a str or an int, as it is written
Spelled(v) == IF v.sc.k = "int" THEN ToString(v.sc.n) ELSE v.sc.s

\* the field at path, or the placeholder when it is absent
Filled(v, path, placeholder) ==
    IF At(v, path) = Absent THEN placeholder ELSE Spelled(At(v, path))

\* no member of v, at any depth, is null
RECURSIVE Plain(_)
Plain(v) ==
    IF v.t = "scalar" THEN v.sc.k # "none"
    ELSE IF v.t = "dict"
    THEN \A i \in 1..Len(v.pairs) : Plain(v.pairs[i].val)
    ELSE \A i \in 1..Len(v.elems) : Plain(v.elems[i])

Repo(v) == Filled(v, <<"repo", "name">>, "unknown_repository")
Ref(v) == Filled(v, <<"payload", "ref">>, "unknown_ref")

\* the name of the first label, when there is one
FirstLabel(v) ==
    IF At(v, <<"payload", "issue", "labels">>) \in {Absent, List(<<>>)}
    THEN "unknown_label"
    ELSE Filled(At(v, <<"payload", "issue", "labels">>).elems[1], <<"name">>,
                "unknown_label")

\* a ref in which a prefix occurs at the front only, without it
OnePrefix ==
    [s \in {"", "main", "unknown_ref", "refs/heads", "heads/refs/heads/main"}
        |-> s]
      @@ ("refs/heads/main" :> "main") @@ ("refs/tags/v1" :> "v1")
      @@ ("refs/heads/" :> "")

\* the templates of the seven handlers, section 4.1 of the specification
CreateTemplate(v) ==
    IF At(v, <<"payload", "ref_type">>) = Lit("repository")
    THEN "Created a new repository '" \o Repo(v) \o "'"
    ELSE IF At(v, <<"payload", "ref_type">>) \in {Lit("tag"), Lit("branch")}
    THEN "Created a new " \o At(v, <<"payload", "ref_type">>).sc.s \o " '"
            \o Ref(v) \o "' in '" \o Repo(v) \o "'"
    ELSE "Created a new '" \o Ref(v) \o "' in '" \o Repo(v) \o "'"

PushTemplate(v) ==
    IF Ref(v) \in {"refs/heads/main", "refs/heads/"}
    THEN "Pushed commit(s) to branch '" \o OnePrefix[Ref(v)] \o "' of '"
            \o Repo(v) \o "'"
    ELSE IF Ref(v) = "refs/tags/v1"
    THEN "Pushed commit(s) to tag '" \o OnePrefix[Ref(v)] \o "' of '"
            \o Repo(v) \o "'"
    ELSE "Pushed commit(s) to '" \o Ref(v) \o "' of '" \o Repo(v) \o "'"

DeleteTemplate(v) ==
    "Deleted " \o Filled(v, <<"payload", "ref_type">>, "unknown_ref_type")
        \o " '" \o OnePrefix[Ref(v)] \o "' from '" \o Repo(v) \o "'"

ForkTemplate(v) ==
    IF At(v, <<"payload", "forkee", "full_name">>) \in {Absent, Lit("")}
    THEN "Forked the repository '" \o Repo(v) \o "'"
    ELSE "Forked '" \o Repo(v) \o "' to '"
            \o Spelled(At(v, <<"payload", "forkee", "full_name">>)) \o "'"

WatchTemplate(v) == "Starred the repository '" \o Repo(v) \o "'"

Number(v) == Filled(v, <<"payload", "issue", "number">>, "unknown_issue")
Action(v) == Filled(v, <<"payload", "action">>, "performed an action")
User(v) == Filled(v, <<"actor", "login">>, "unknown_user")
Assignee(v) ==
    Filled(v, <<"payload", "issue", "assignee", "login">>, "unknown_assignee")

IssuesTemplate(v) ==
    IF Action(v) \in {"opened", "edited", "deleted", "closed", "reopened",
                      "transferred", "pinned", "unpinned", "locked",
                      "unlocked"}
    THEN "Issue #" \o Number(v) \o " was " \o Action(v) \o " by " \o User(v)
            \o " in " \o Repo(v)
    ELSE IF Action(v) = "assigned"
    THEN "Issue #" \o Number(v) \o " was assigned to " \o Assignee(v)
            \o " by " \o User(v) \o " in " \o Repo(v)
    ELSE IF Action(v) = "unassigned"
    THEN "Issue #" \o Number(v) \o " was unassigned from " \o Assignee(v)
            \o " by " \o User(v) \o " in " \o Repo(v)
    ELSE IF Action(v) \in {"labeled", "unlabeled"}
    THEN "Issue #" \o Number(v) \o " was " \o Action(v) \o " "
            \o FirstLabel(v) \o " by " \o User(v) \o " in " \o Repo(v)
    ELSE "Performed an action " \o Action(v) \o " on issue " \o Number(v)
            \o " of repo " \o Repo(v)

PullRequestTemplate(v) ==
    "PR #" \o Filled(v, <<"payload", "number">>, "unknown_pr") \o " '"
        \o Filled(v, <<"payload", "pull_request", "title">>, "unknown_title")
        \o "' was " \o Action(v) \o " in " \o Repo(v) \o " by "
        \o Filled(v, <<"payload", "pull_request", "user", "login">>,
                  "unknown_user")

Template(v) ==
    IF Described("CreateEvent") THEN CreateTemplate(v)
    ELSE IF Described("PushEvent") THEN PushTemplate(v)
    ELSE IF Described("DeleteEvent") THEN DeleteTemplate(v)
    ELSE IF Described("ForkEvent") THEN ForkTemplate(v)
    ELSE IF Described("WatchEvent") THEN WatchTemplate(v)
    ELSE IF Described("IssuesEvent") THEN IssuesTemplate(v)
    ELSE PullRequestTemplate(v)

\* the ref of the record is one in which a prefix occurs at the front only
SimpleRef == Ref(record) \in DOMAIN OnePrefix

\* the value of "type", as Python writes it
TypeText ==
    IF At(record, <<"type">>) \in {Absent, None} THEN "None"
    ELSE IF At(record, <<"type">>) = List(<<>>) THEN "[]"
    ELSE IF At(record, <<"type">>) = Dict(<<>>) THEN "{}"
    ELSE Spelled(At(record, <<"type">>))

(***************************************************************************)
(* C21.  Event dispatch is total and never raises: handle_output gives an  *)
(* event whose type is one of the seven supported types to the handler of  *)
(* that type, and for every other value of the type, a missing type        *)
(* included, it returns "Unhandled event type: <type>".                    *)
(***************************************************************************)
C21_DispatchTotal ==
    record # Unbound =>
        /\ Described("CreateEvent") => described = _handle_create_event(record)
        /\ Described("PushEvent") => described = _handle_push_event(record)
        /\ Described("DeleteEvent") => described = _handle_delete_event(record)
        /\ Described("ForkEvent") => described = _handle_fork_event(record)
        /\ Described("WatchEvent") => described = _handle_watch_event(record)
        /\ Described("IssuesEvent") => described = _handle_issues_event(record)
        /\ Described("PullRequestEvent")
              => described = _handle_pull_request_event(record)
        /\ (\A type \in HANDLERS : ~Described(type))
              => described = Lit("Unhandled event type: " \o TypeText)

(***************************************************************************)
(* C22.  For each of the seven supported event types the handler raises no *)
(* exception, whichever fields of the record are absent, null or empty,    *)
(* and for a record without a null it returns the documented template with *)
(* the placeholder in the place of each absent field.                      *)
(***************************************************************************)
C22_PlaceholdersForAbsent ==
    (\E type \in HANDLERS : Described(type))
        => /\ described.t # "raise"
           /\ (Plain(record) /\ SimpleRef)
                 => described = Lit(Template(record))

(***************************************************************************)
(* C26.  PushEvent strips the leading prefix only: of a ref that starts    *)
(* with refs/heads/ (refs/tags/) the branch (tag) name shown is the ref    *)
(* without its first 11 (10) characters, and a ref that starts with        *)
(* neither is shown as it is.                                              *)
(***************************************************************************)
C26_LeadingPrefixOnly ==
    (/\ Described("PushEvent")
     /\ Plain(record)
     /\ At(record, <<"payload", "ref">>) # Absent)
        => described =
              Lit(IF Len(Ref(record)) >= 11
                     /\ SubSeq(Ref(record), 1, 11) = "refs/heads/"
                  THEN "Pushed commit(s) to branch '"
                          \o SubSeq(Ref(record), 12, Len(Ref(record)))
                          \o "' of '" \o Repo(record) \o "'"
                  ELSE IF Len(Ref(record)) >= 10
                             /\ SubSeq(Ref(record), 1, 10) = "refs/tags/"
                  THEN "Pushed commit(s) to tag '"
                          \o SubSeq(Ref(record), 11, Len(Ref(record)))
                          \o "' of '" \o Repo(record) \o "'"
                  ELSE "Pushed commit(s) to '" \o Ref(record) \o "' of '"
                          \o Repo(record) \o "'")

(***************************************************************************)
(* Vocabulary of the properties of the display.                            *)
(***************************************************************************)
\* main() reached the display with a list of event records and without a
\* filter or with a supported one
Displayed ==
    /\ Invoked /\ raised = "none"
    /\ events.t = "list"
    /\ \A i \in 1..Len(events.elems) : events.elems[i].t = "dict"
    /\ Len(sys_argv) = 4 => sys_argv[4] \in HANDLERS

\* the count of the command line
CountOf ==
    CHOOSE n \in 1..30 :
        sys_argv[3] \in {ToString(n), "0" \o ToString(n), "+" \o ToString(n)}

\* the positions of the events that match
Matches ==
    {i \in 1..Len(events.elems) :
        Len(sys_argv) = 4 => At(Nested(events.elems[i]), <<"type">>)
                                = Lit(sys_argv[4])}

\* the j-th position of S, in ascending order
Nth(S, j) == CHOOSE i \in S : Cardinality({x \in S : x < i}) = j - 1

\* the formatted forms of the first matching events, at most CountOf
FirstMatches ==
    [j \in 1..(IF Cardinality(Matches) < CountOf THEN Cardinality(Matches)
               ELSE CountOf) |->
        handle_output(Nested(events.elems[Nth(Matches, j)])).sc.s]

NoEvents == "No events to display."

IsEventLine(l) == l \notin {Separator, NoEvents}

(***************************************************************************)
(* C24.  The claim: the lines displayed are the formatted forms of the     *)
(* first min(n, number of matching events) matching events in fetched      *)
(* order, never more than n, and "No events to display." is printed        *)
(* exactly when no event matches.  (For an empty list of events no event   *)
(* matches, and main() prints nothing.)                                    *)
(***************************************************************************)
C24_NoEventsExactlyWhenNoMatch ==
    Displayed =>
        /\ SelectSeq(printed, IsEventLine) = FirstMatches
        /\ Len(SelectSeq(printed, IsEventLine)) <= CountOf
        /\ (\E i \in 1..Len(printed) : printed[i] = NoEvents) <=> Matches = {}

(***************************************************************************)
(* C24, amended.  For a list of events that is not empty, main() prints a  *)
(* separator, then the formatted forms of the first min(n, number of       *)
(* matching events) matching events in fetched order, or "No events to     *)
(* display." when no event matches, then a separator; for an empty list it *)
(* prints nothing.                                                         *)
(***************************************************************************)
C24_BoundedFiltered ==
    Displayed =>
        printed =
            IF events.elems = <<>> THEN <<>>
            ELSE <<Separator>>
                    \o (IF Matches = {} THEN <<NoEvents>> ELSE FirstMatches)
                    \o <<Separator>>

\* four events of which two match the filter, and a count of one: the
\* first match is printed, the second is not
C24_Witness ==
    /\ Displayed
    /\ Len(events.elems) = 4
    /\ Len(sys_argv) = 4
    /\ Cardinality(Matches) = 2
    /\ CountOf = 1
    /\ printed = <<Separator,
                   "Pushed commit(s) to 'unknown_ref' of 'unknown_repository'",
                   Separator>>

(***************************************************************************)
(* C25.  Served events are never older than the TTL: where only the        *)
(* program writes the cache file, an invocation that displays events       *)
(* without a request to the network displays the events of the most recent *)
(* fetch that returned events, that fetch was made at most 900 seconds     *)
(* earlier, and the invocation leaves the cache file, time stamp included, *)
(* as it was.                                                              *)
(***************************************************************************)
C25_ServedWithinTtl ==
    (Invoked /\ raised = "none" /\ ~fetched.called /\ Truthy(events))
        => /\ Len(printed) >= 3
           /\ last_fetch.called
           /\ events = last_fetch.events
           /\ utc - last_fetch.at <= 900
           /\ cache = cache_was
           /\ StampedAt(cache) = last_fetch.at

\* events fetched in the first second are served from the cache 900
\* seconds later
C25_Witness ==
    /\ Invoked /\ raised = "none" /\ ~fetched.called /\ Truthy(events)
    /\ Len(printed) >= 3
    /\ last_fetch.called /\ last_fetch.at = 1
    /\ utc = 901
    /\ Len(events.elems) = 4

(***************************************************************************)
(* C23.  Two task-tracker processes on one task file: when both have       *)
(* written their list and finished, the file holds the list of the process *)
(* whose write ended last, a list in which no two tasks have the same id.  *)
(***************************************************************************)
BothDone == \A p \in Processes : race[p].at = "done"

C23_LastWriterWins ==
    (BothDone /\ Len(writers) = 2)
        => /\ Decodes(file)
           /\ Holds(file) = race[writers[Len(writers)]].tasks
           /\ TaskRecords(Holds(file))
           /\ \A i, j \in 1..Len(Holds(file).elems) :
                 Get(Holds(file).elems[i], "id") = Get(Holds(file).elems[j], "id")
                    => i = j

====
